---- MODULE Spec2Model ----
(***************************************************************************)
(* Model of the VentAxia Home Assistant integration                        *)
(* (custom_components/ventaxia_ha).                                        *)
(*                                                                         *)
(* The coordinator runs on one asyncio event loop.  A task runs from one   *)
(* await to the next without interruption; the tasks that are ready to run *)
(* are kept in the FIFO queue `ready`, as asyncio's call_soon keeps them.  *)
(* Every action whose name is a method of the source is one such step of   *)
(* the task at the head of the queue.  The actions of the environment (the *)
(* transport of the external client library and Home Assistant) complete   *)
(* an awaited operation, deliver a message, drop the connection or call    *)
(* stop(); they wake the tasks concerned by appending them to the queue.   *)
(*                                                                         *)
(* Suspension points are the awaits on the message stream, connect, close, *)
(* and sleep; processor.process does not suspend.                          *)
(***************************************************************************)
EXTENDS Integers, Sequences, FiniteSets, TLC

\* ------------------------------------------------------------------ bounds
\* Connection-lost signals the transport raises in one run.
MaxHandlers == 2
\* Inbound messages the device sends in one run.
MaxMsgs == 2

\* Calls of the timer's start, cancel and removal in one run (together), and
\* the times the clock is seen to move.
MaxCalls == 4
MaxAdvances == 2
\* Button presses and service calls in one run.
MaxCommands == 1
\* Calls of the select's async_select_option in one run.
MaxSelects == 2
\* Config flows the user submits in one run.
MaxFlows == 2
\* remove_update_callback calls in one run.
MaxRemovals == 3

\* ------------------------------------------------------- program constants
\* Mutant: one attempt too many (range(6)).
MaxAttempts_six == 5 + 1
\* range(5) in _handle_disconnect
MaxAttempts == 5
\* asyncio.sleep(10) in _handle_disconnect
ReconnectDelay == 10
\* Update callbacks the platforms register (one per entity; two stand for all).
Callbacks == <<1, 2>>

\* timedelta(minutes=duration_minutes) in async_start_timer
SecondsPerMinute == 60
\* asyncio.sleep(1) in _timer_update_loop
TickInterval == 1
\* The clock counts half seconds, so that int(...total_seconds()) in
\* `remaining` has something to truncate.
TicksPerSecond == 2
\* duration_minutes the callers pass
Durations == {1, 2}
\* How far the clock moves at once: a second, or half a second short of a minute.
AdvanceSteps == {TicksPerSecond, SecondsPerMinute * TicksPerSecond - 1}

\* ------------------------------------------------------------------- tasks
\* Every handler run spawns at most one receive loop, start() spawns one.
MaxLoops == MaxHandlers + 1
SetupT == <<"S", 0>>
LoopT(i) == <<"L", i>>
HandT(j) == <<"H", j>>
StopT == <<"U", 0>>
Loops == {LoopT(i) : i \in 1..MaxLoops}
Handlers == {HandT(j) : j \in 1..MaxHandlers}
Tasks == {SetupT, StopT} \cup Loops \cup Handlers
\* The tasks in which Home Assistant runs a button press or a service call.
CmdT(k) == <<"X", k>>
CmdTasks == {CmdT(k) : k \in 1..MaxCommands}
\* The timer's tasks: the ticking tasks and the callers of start, cancel and
\* removal (one call of each kind at a time).
TickT(i) == <<"K", i>>
StartT == <<"A", 0>>
CancelT == <<"C", 0>>
RemoveT == <<"R", 0>>
Ticks == {TickT(i) : i \in 1..MaxCalls}
TimerTasks == {StartT, CancelT, RemoveT} \cup Ticks
\* The tasks in which Home Assistant runs async_step_user for a submitted form.
FlowT(i) == <<"F", i>>
FlowTasks == {FlowT(i) : i \in 1..MaxFlows}

VARIABLES
    pc,              \* task -> where the task stands
    wake,            \* task -> why a suspended task was woken ("none": not woken)
    ready,           \* the event loop's FIFO queue of tasks ready to run
    result,          \* task -> how the task ended
    connected,       \* VentAxiaCoordinator._connected
    receive_task,    \* VentAxiaCoordinator._receive_task (0: None, i: loop i)
    callbacks,       \* VentAxiaCoordinator._callbacks
    client_open,     \* the client's transport is connected
    client_closing,  \* AsyncNativePskClient._closing
    attempts,        \* task -> connect() calls of the task's run so far
    fails,           \* task -> those of them that raised
    closes,          \* task -> close() calls of the task's run so far
    inbox,           \* loop task -> message it was woken with (0: none)
    pending_exc,     \* loop task -> an exception is propagating through finally
    awaiting,        \* the loop async_stop awaits (0: none)
    nLoops,          \* receive-loop tasks created so far
    nHandlers,       \* disconnect handlers created so far
    nMsgs,           \* messages delivered so far
    registered,      \* hass.data[DOMAIN][entry_id] holds the coordinator
    forwarded,       \* the platforms were forwarded
    services,        \* the three services are registered
    log              \* what the receive loops did, in order

VARIABLES
    timer_state,     \* VentAxiaRuntimeTimer._timer_state
    timer_duration,  \* ._timer_duration (minutes)
    timer_start,     \* ._timer_start (clock value; 0: None)
    timer_finish,    \* ._timer_finish (clock value; 0: None)
    update_task,     \* ._update_task (0: None, i: ticking task i)
    now,             \* datetime.now(timezone.utc), in half seconds
    sleep_until,     \* ticking task -> when its asyncio.sleep(1) is over
    joiners,         \* ticking task -> the tasks that await it, in order
    events,          \* what hass.bus.async_fire was called with, in order
    call_duration,   \* the argument of the pending start call
    start_overlap,   \* d when the last start(d) ran while a cancel awaited, else 0
    nTicks,          \* ticking tasks created so far
    nCalls,          \* calls of start, cancel and removal so far
    nAdvances        \* clock movements so far

VARIABLES
    cmd_kind,        \* command task -> the button or service it runs
    cmd_sends,       \* command task -> its input passes the handler's own checks
    cmd_exc,         \* command task -> what its send raised ("none": nothing)
    nCmds,           \* presses and calls so far
    cmd_data,        \* command task -> the data of the service call
    sent,            \* the calls of the client's commands, in order
    commission_mode, \* coordinator.commission_mode
    selections       \* the options async_select_option was called with

VARIABLES
    entries,         \* the config entries of the domain, in creation order
    flow_input,      \* flow task -> the user_input its step was called with
    flow_exc,        \* flow task -> <<await, what the await raised>>
    flow_result,     \* flow task -> the ConfigFlowResult of the step
    flow_known,      \* flow task -> its device id had an entry when it was called
    nFlows           \* calls of the user step so far

VARIABLES
    timer_written    \* the timer's last async_write_ha_state calls (one step's)

VARIABLES
    delay,           \* handler -> what is left of its asyncio.sleep (0: none)
    device,          \* processor.device: the device-state model
    published,       \* sensor -> its state in Home Assistant's state machine
    remove_call,     \* the last remove_update_callback call and how it ended
    nRemovals        \* remove_update_callback calls so far

vars == <<pc, wake, ready, result, connected, receive_task, callbacks,
          client_open, client_closing, attempts, fails, closes,
          inbox, pending_exc, awaiting, nLoops, nHandlers, nMsgs,
          registered, forwarded, services, log,
          timer_state, timer_duration, timer_start, timer_finish, update_task,
          now, sleep_until, joiners, events, call_duration, start_overlap,
          nTicks, nCalls, nAdvances, cmd_kind, cmd_sends, cmd_exc, nCmds,
          cmd_data, sent, commission_mode, selections,
          delay, device, published, remove_call, nRemovals, timer_written,
          entries, flow_input, flow_exc, flow_result, flow_known, nFlows>>

coordVars == <<connected, receive_task, callbacks>>
clientVars == <<client_open, client_closing>>
countVars == <<attempts, fails, closes>>
setupVars == <<registered, forwarded, services>>
envVars == <<nHandlers, nMsgs>>
timerFields == <<timer_state, timer_duration, timer_start, timer_finish>>
timerCalls == <<call_duration, start_overlap, nCalls>>
timerVars == <<timerFields, update_task, now, sleep_until, joiners, events,
               timerCalls, nTicks, nAdvances, timer_written>>
selectVars == <<commission_mode, selections>>
commandVars == <<cmd_kind, cmd_sends, cmd_exc, nCmds, cmd_data, sent, selectVars>>
entityVars == <<device, published, remove_call, nRemovals>>
flowVars == <<entries, flow_input, flow_exc, flow_result, flow_known, nFlows>>
\* What the timer's actions leave alone.
coordOnlyVars == <<coordVars, clientVars, countVars, inbox, pending_exc, awaiting,
                   nLoops, envVars, setupVars, log, commandVars, delay, entityVars,
                   flowVars>>

\* ----------------------------------------------------------------- helpers
InReady(t) == \E k \in DOMAIN ready : ready[k] = t
\* The task that runs now.
Running(t) == ready # <<>> /\ Head(ready) = t
\* Set -> sequence, in the order of the task index (the order tasks were created).
RECURSIVE SeqOf(_)
SeqOf(S) ==
    IF S = {} THEN <<>>
    ELSE LET t == CHOOSE x \in S : \A y \in S : x[2] <= y[2]
         IN <<t>> \o SeqOf(S \ {t})

\* Call data without a field.
NoData == [f \in {} |-> <<"int", 0>>]

\* No button was pressed and no service called; the coordinator's
\* commissioning mode is as __init__ set it.
NoCommands ==
    /\ cmd_kind = [t \in CmdTasks |-> "none"]
    /\ cmd_sends = [t \in CmdTasks |-> FALSE]
    /\ cmd_exc = [t \in CmdTasks |-> "none"]
    /\ nCmds = 0
    /\ cmd_data = [t \in CmdTasks |-> NoData]
    /\ sent = <<>>
    /\ commission_mode = "normal"
    /\ selections = <<>>

\* ---------------------------------------------- the device-state model
\* What a field of the device model or a state holds: None, or a number.
NoValue == <<"None", 0>>
Value(n) == <<"val", n>>
\* The state of an entity that is not available, and no state at all.
Unavailable == <<"unavailable", 0>>
Absent == <<"absent", 0>>

\* The sensors that register an update callback (one per callback).
Sensors == {Callbacks[i] : i \in DOMAIN Callbacks}
\* A callback nobody registered.
Stranger == 3

\* VentMessageProcessor(): a device model with nothing known yet.
NewDevice ==
    [sup_rpm |-> NoValue, extract_temp_c |-> NoValue,
     outdoor_temp_c |-> NoValue, schedules |-> NoValue]

\* processor.process(msg): the fields the message carries are written to the
\* device model (message m carries readings that depend on m).
process(dev, m) ==
    [dev EXCEPT !.sup_rpm = Value(m),
                !.extract_temp_c = Value(20 + m),
                !.outdoor_temp_c = Value(10 + m)]

\* native_value of the two sensors that stand for all: VentAxiaSupplyRpmSensor
\* returns the field; VentAxiaSupplyTempSensor returns None unless both
\* temperatures are known, else 0.9 * extract + 0.1 * outdoor (in hundredths
\* of a degree here).
native_value(k, dev) ==
    IF k = 1 THEN dev.sup_rpm
    ELSE IF dev.extract_temp_c = NoValue \/ dev.outdoor_temp_c = NoValue THEN NoValue
    ELSE Value(90 * dev.extract_temp_c[2] + 10 * dev.outdoor_temp_c[2])

\* async_write_ha_state of a sensor: the state is native_value while the
\* entity is available, "unavailable" otherwise.
SensorState(k, dev, avail) == IF avail THEN native_value(k, dev) ELSE Unavailable

\* list.remove(x): the list without the first x.
RECURSIVE RemoveFirst(_, _)
RemoveFirst(seq, x) ==
    IF seq = <<>> THEN <<>>
    ELSE IF Head(seq) = x THEN Tail(seq)
    ELSE <<Head(seq)>> \o RemoveFirst(Tail(seq), x)

\* No entity was added yet, nothing was removed.
NoEntities ==
    /\ delay = [h \in Handlers |-> 0]
    /\ device = NewDevice
    /\ published = [k \in Sensors |-> Absent]
    /\ remove_call = <<0, "none">>
    /\ nRemovals = 0

\* ------------------------------------------------- config-flow values
\* user_input is None when the step is called to show the empty form.
NoInput == [host |-> "None", wifi_device_id |-> "None"]
\* The hosts and wifi device ids a user types in (port, identity and psk key
\* are carried along unread by the step and are left out).
Hosts == {"10.0.0.1", "10.0.0.2"}
DeviceIds == {"dev-a", "dev-b"}
UserInputs == [host : Hosts, wifi_device_id : DeviceIds]
\* A text is the sequence of its pieces.
Text(str) == <<str>>
\* The ConfigFlowResult kinds.
NoResult == <<"none">>
ShowForm(step_id, errors) == <<"form", step_id, errors>>
Abort(reason) == <<"abort", reason>>
CreateEntry(title, data) == <<"create_entry", title, data>>

\* No step was called yet, no config entry exists.
NoFlows ==
    /\ entries = <<>>
    /\ flow_input = [f \in FlowTasks |-> NoInput]
    /\ flow_exc = [f \in FlowTasks |-> <<"none", "none">>]
    /\ flow_result = [f \in FlowTasks |-> NoResult]
    /\ flow_known = [f \in FlowTasks |-> FALSE]
    /\ nFlows = 0

\* VentAxiaRuntimeTimer.__init__: idle, no times, no ticking task.
TimerCreated ==
    /\ timer_state = "idle"
    /\ timer_duration = 0
    /\ timer_start = 0
    /\ timer_finish = 0
    /\ update_task = 0
    /\ now = 1
    /\ sleep_until = [t \in Ticks |-> 0]
    /\ joiners = [t \in Ticks |-> <<>>]
    /\ events = <<>>
    /\ call_duration = 0
    /\ start_overlap = 0
    /\ nTicks = 0
    /\ nCalls = 0
    /\ nAdvances = 0
    /\ timer_written = <<0, <<>>>>

\* VentAxiaCoordinator.__init__: the state after construction, with the setup
\* task (async_setup_entry) scheduled.
Init ==
    /\ pc = [t \in Tasks |-> IF t = SetupT THEN "created" ELSE "none"]
    /\ wake = [t \in Tasks |-> "none"]
    /\ ready = <<SetupT>>
    /\ result = [t \in Tasks |-> "none"]
    /\ connected = FALSE
    /\ receive_task = 0
    /\ callbacks = <<>>
    /\ client_open = FALSE
    /\ client_closing = FALSE
    /\ attempts = [t \in Tasks |-> 0]
    /\ fails = [t \in Tasks |-> 0]
    /\ closes = [t \in Tasks |-> 0]
    /\ inbox = [t \in Loops |-> 0]
    /\ pending_exc = [t \in Loops |-> FALSE]
    /\ awaiting = 0
    /\ nLoops = 0
    /\ nHandlers = 0
    /\ nMsgs = 0
    /\ registered = FALSE
    /\ forwarded = FALSE
    /\ services = FALSE
    /\ log = <<>>
    /\ TimerCreated
    /\ NoCommands
    /\ NoFlows
    /\ NoEntities

\* ------------------------------------------------- the client's transport
\* Receive loops that wait in `async for msg in self.client` for a message.
WaitingLoops == {t \in Loops : pc[t] = "recv" /\ wake[t] = "none"}
\* The tasks that wait in `await self._receive_task` for loop i to finish.
Waiters(i) ==
    IF pc[StopT] = "awaiting" /\ awaiting = i /\ wake[StopT] = "none"
    THEN {StopT} ELSE {}
\* wake, with every task of S woken for the reason `why`, and t suspended again.
Woken(S, why, t) ==
    [u \in DOMAIN wake |->
        IF u = t THEN "none" ELSE IF u \in S THEN why ELSE wake[u]]

\* ------------------------------------------------------- async_setup_entry
\* Mutant: async_start raises the flag before connect() has returned.
async_start_connect_flag_first ==
    /\ Running(SetupT) /\ pc[SetupT] = "created"
    /\ pc' = [pc EXCEPT ![SetupT] = "connecting"]
    /\ attempts' = [attempts EXCEPT ![SetupT] = @ + 1]
    /\ ready' = Tail(ready)
    /\ connected' = TRUE
    /\ UNCHANGED <<delay, entityVars, wake, result, receive_task, callbacks, clientVars, fails, closes,
                   inbox, pending_exc, awaiting, nLoops, envVars, setupVars, log>>

\* async_setup_entry up to `await self.client.connect()` in async_start.
async_start_connect ==
    /\ Running(SetupT) /\ pc[SetupT] = "created"
    /\ pc' = [pc EXCEPT ![SetupT] = "connecting"]
    /\ attempts' = [attempts EXCEPT ![SetupT] = @ + 1]
    /\ ready' = Tail(ready)
    /\ UNCHANGED <<delay, entityVars, wake, result, coordVars, clientVars, fails, closes, inbox, pending_exc, awaiting, nLoops, envVars,
                   setupVars, log>>

\* connect() returned: the rest of async_start (the flag, the receive loop),
\* then the rest of async_setup_entry: the coordinator is stored, the platforms
\* are forwarded (every entity registers its update callback in
\* async_added_to_hass, and Home Assistant writes its first state), the
\* services are registered.
async_start_connected ==
    /\ Running(SetupT) /\ pc[SetupT] = "connecting" /\ wake[SetupT] = "ok"
    /\ connected' = TRUE
    /\ nLoops' = nLoops + 1
    /\ receive_task' = nLoops + 1
    /\ pc' = [pc EXCEPT ![SetupT] = "done", ![LoopT(nLoops + 1)] = "created"]
    /\ result' = [result EXCEPT ![SetupT] = "ok"]
    /\ wake' = [wake EXCEPT ![SetupT] = "none"]
    /\ ready' = Tail(ready) \o <<LoopT(nLoops + 1)>>
    /\ registered' = TRUE
    /\ forwarded' = TRUE
    /\ callbacks' = callbacks \o Callbacks
    /\ published' = [k \in Sensors |-> SensorState(k, device, TRUE)]
    /\ services' = TRUE
    /\ UNCHANGED <<delay, device, remove_call, nRemovals, clientVars, countVars,
                   inbox, pending_exc, awaiting, envVars, log>>

\* connect() raised: async_start propagates, async_setup_entry raises
\* ConfigEntryNotReady.
async_start_failed ==
    /\ Running(SetupT) /\ pc[SetupT] = "connecting" /\ wake[SetupT] = "fail"
    /\ fails' = [fails EXCEPT ![SetupT] = @ + 1]
    /\ pc' = [pc EXCEPT ![SetupT] = "done"]
    /\ result' = [result EXCEPT ![SetupT] = "not_ready"]
    /\ wake' = [wake EXCEPT ![SetupT] = "none"]
    /\ ready' = Tail(ready)
    /\ UNCHANGED <<delay, entityVars, coordVars, clientVars, attempts, closes, inbox,
                   pending_exc, awaiting, nLoops, envVars, setupVars, log>>

\* ----------------------------------------------------------- _receive_loop
\* Mutant: _notify_update returns after the first callback.
_notify_update_first_only(i, m) ==
    IF callbacks = <<>> THEN <<>> ELSE <<(<<"c", i, m, callbacks[1]>>)>>

\* What _notify_update does for message m in loop i: every registered callback
\* is called, in the order of registration.
_notify_update(i, m) ==
    [k \in 1..Len(callbacks) |-> <<"c", i, m, callbacks[k]>>]

\* Mutant: the loop does not notice that the transport is gone and keeps
\* waiting for the next message.
LoopGoesOn_ignores_closed(t, onward, exc) ==
    LET ended == IF onward THEN {} ELSE WaitingLoops \ {t}
    IN  /\ pc' = [pc EXCEPT ![t] = IF onward THEN "recv" ELSE "close"]
        /\ wake' = Woken(ended, "eof", t)
        /\ ready' = Tail(ready) \o SeqOf(ended)
        /\ closes' = [closes EXCEPT ![t] = IF onward THEN @ ELSE @ + 1]
        /\ client_open' = IF onward THEN client_open ELSE FALSE
        /\ client_closing' = IF onward THEN client_closing ELSE TRUE
        /\ pending_exc' = [pending_exc EXCEPT ![t] = exc]
        /\ inbox' = [inbox EXCEPT ![t] = 0]

\* Mutant: close() stands in an else clause, not in finally: an exception
\* ends the task without it.
LoopGoesOn_close_unless_exc(t, onward, exc) ==
    LET toFinally == ~onward \/ ~client_open
        ended == IF toFinally /\ ~exc THEN WaitingLoops \ {t} ELSE {}
    IN  /\ pc' = [pc EXCEPT ![t] = IF exc THEN "done"
                                   ELSE IF toFinally THEN "close" ELSE "recv"]
        /\ wake' = Woken(ended, "eof", t)
        /\ ready' = Tail(ready) \o SeqOf(ended)
        /\ closes' = [closes EXCEPT ![t] = IF toFinally /\ ~exc THEN @ + 1 ELSE @]
        /\ client_open' = IF toFinally /\ ~exc THEN FALSE ELSE client_open
        /\ client_closing' = IF toFinally /\ ~exc THEN TRUE ELSE client_closing
        /\ pending_exc' = [pending_exc EXCEPT ![t] = exc]
        /\ inbox' = [inbox EXCEPT ![t] = 0]

\* The loop goes to its next await: `async for` asks the client for the next
\* message (onward) and suspends while the transport is open; on a transport
\* that is not open the stream has ended.  Otherwise, and then, the loop is in
\* its finally clause and calls close(), which takes the transport down and
\* ends the stream for every loop that waits on it.
LoopGoesOn(t, onward, exc) ==
    LET toFinally == ~onward \/ ~client_open
        ended == IF toFinally THEN WaitingLoops \ {t} ELSE {}
    IN  /\ pc' = [pc EXCEPT ![t] = IF toFinally THEN "close" ELSE "recv"]
        /\ wake' = Woken(ended, "eof", t)
        /\ ready' = Tail(ready) \o SeqOf(ended)
        /\ closes' = [closes EXCEPT ![t] = IF toFinally THEN @ + 1 ELSE @]
        /\ client_open' = IF toFinally THEN FALSE ELSE client_open
        /\ client_closing' = IF toFinally THEN TRUE ELSE client_closing
        /\ pending_exc' = [pending_exc EXCEPT ![t] = exc]
        /\ inbox' = [inbox EXCEPT ![t] = 0]

\* The task's first step: the coroutine enters try and `async for`.
receive_loop_start(t) ==
    /\ Running(t) /\ pc[t] = "created" /\ wake[t] # "cancel"
    /\ LoopGoesOn(t, TRUE, FALSE)
    /\ UNCHANGED <<delay, entityVars, result, coordVars, attempts, fails, awaiting,
                   nLoops, envVars, setupVars, log>>

\* Mutant: the sensors' states are written from the device model as it was
\* before process(msg).
Written_stale(called, before, after) ==
    [k \in Sensors |->
        IF \E i \in DOMAIN called : called[i][4] = k
        THEN SensorState(k, before, connected) ELSE published[k]]

\* The states after the callbacks `called` have run: every sensor whose
\* callback was called has written its state (_handle_coordinator_update),
\* read from the device model as process(msg) left it.
Written(called, before, after) ==
    [k \in Sensors |->
        IF \E i \in DOMAIN called : called[i][4] = k
        THEN SensorState(k, after, connected) ELSE published[k]]

\* A message arrived: process(msg), then _notify_update(), then the next
\* message; or process raises (the model is left as it was) and the exception
\* leaves through finally.
receive_loop_message(t) ==
    /\ Running(t) /\ pc[t] = "recv" /\ wake[t] = "msg"
    /\ \E ok \in BOOLEAN :
        /\ log' = log \o (IF ok THEN <<(<<"p", t[2], inbox[t], Len(callbacks)>>)>>
                                       \o _notify_update(t[2], inbox[t])
                                 ELSE <<(<<"x", t[2], inbox[t], 0>>)>>)
        /\ device' = IF ok THEN process(device, inbox[t]) ELSE device
        /\ published' = IF ok
                THEN Written(_notify_update(t[2], inbox[t]), device, device')
                ELSE published
        /\ LoopGoesOn(t, ok, ~ok)
    /\ UNCHANGED <<delay, remove_call, nRemovals, result, coordVars, attempts, fails, awaiting,
                   nLoops, envVars, setupVars>>

\* The stream ended (StopAsyncIteration), or the task was cancelled while it
\* waited (except asyncio.CancelledError): the loop leaves through finally.
receive_loop_exit(t) ==
    /\ Running(t) /\ pc[t] = "recv" /\ wake[t] \in {"eof", "cancel"}
    /\ LoopGoesOn(t, FALSE, FALSE)
    /\ UNCHANGED <<delay, entityVars, result, coordVars, attempts, fails, awaiting,
                   nLoops, envVars, setupVars, log>>

\* How a receive-loop task ends once it stands in `await self.client.close()`:
\* cancelled there, CancelledError leaves the finally clause; else the exception
\* that was propagating, if any, is the task's result.
LoopResult(t) ==
    IF wake[t] = "cancel" THEN "cancelled"
    ELSE IF pending_exc[t] THEN "exc" ELSE "ok"

\* The task ends; whoever awaits it is woken.
LoopEnds(t, res) ==
    /\ pc' = [pc EXCEPT ![t] = "done"]
    /\ result' = [result EXCEPT ![t] = res]
    /\ wake' = Woken(Waiters(t[2]), "ok", t)
    /\ ready' = Tail(ready) \o SeqOf(Waiters(t[2]))
    /\ UNCHANGED <<delay, entityVars, coordVars, clientVars, countVars, inbox, pending_exc, awaiting,
                   nLoops, envVars, setupVars, log>>

\* close() returned (or the task was cancelled in it): the coroutine finishes.
receive_loop_closed(t) ==
    /\ Running(t) /\ pc[t] = "close" /\ wake[t] \in {"ok", "cancel"}
    /\ LoopEnds(t, LoopResult(t))

\* A task cancelled before its first step never enters the coroutine
\* (asyncio.create_task, then Task.cancel): no try, no finally.
receive_loop_never_runs(t) ==
    /\ Running(t) /\ pc[t] = "created" /\ wake[t] = "cancel"
    /\ LoopEnds(t, "never_ran")

\* ------------------------------------------------------------- async_stop
\* What `await self._receive_task` gives async_stop once the task has ended:
\* CancelledError is swallowed, any other exception of the task is re-raised.
StopOutcome(res) == IF res = "exc" THEN "raised" ELSE "ok"

\* async_stop up to `await self._receive_task`: nothing to do without a task;
\* else cancel() (no effect on a task that ended; a task that waits is woken
\* with CancelledError, a task that is ready gets it at its next step), then
\* the await, which does not suspend on a task that has ended.
async_stop_begin ==
    LET l == LoopT(receive_task)
        goes == receive_task = 0 \/ pc[l] = "done"
        wakes == IF ~goes /\ ~InReady(l) THEN {l} ELSE {}
    IN  /\ Running(StopT) /\ pc[StopT] = "created"
        /\ pc' = [pc EXCEPT ![StopT] = IF goes THEN "done" ELSE "awaiting"]
        /\ result' = [result EXCEPT ![StopT] =
                IF receive_task = 0 THEN "ok"
                ELSE IF goes THEN StopOutcome(result[l]) ELSE @]
        /\ awaiting' = IF goes THEN 0 ELSE receive_task
        /\ wake' = [t \in Tasks |-> IF ~goes /\ t = l THEN "cancel" ELSE wake[t]]
        /\ ready' = Tail(ready) \o SeqOf(wakes)
        /\ UNCHANGED <<delay, entityVars, coordVars, clientVars, countVars, inbox, pending_exc, nLoops,
                       envVars, setupVars, log>>

\* The awaited task ended: async_stop returns, or raises what the task raised.
async_stop_resume ==
    /\ Running(StopT) /\ pc[StopT] = "awaiting" /\ wake[StopT] = "ok"
    /\ pc' = [pc EXCEPT ![StopT] = "done"]
    /\ result' = [result EXCEPT ![StopT] = StopOutcome(result[LoopT(awaiting)])]
    /\ awaiting' = 0
    /\ wake' = [wake EXCEPT ![StopT] = "none"]
    /\ ready' = Tail(ready)
    /\ UNCHANGED <<delay, entityVars, coordVars, clientVars, countVars, inbox, pending_exc, nLoops,
                   envVars, setupVars, log>>

\* ------------------------------------------------------ _handle_disconnect
\* Mutant: the handler calls close() without looking at _closing.
HandlerCloses_always == TRUE
\* `if not self.client._closing`: the handler calls close() itself.
HandlerCloses == ~client_closing

\* The handler returns: its run is over, what was counted for it is dropped.
HandlerReturns(h) ==
    /\ attempts' = [attempts EXCEPT ![h] = 0]
    /\ fails' = [fails EXCEPT ![h] = 0]
    /\ closes' = [closes EXCEPT ![h] = 0]

\* The handler's first step: the flag goes down; close() unless the client is
\* closing already, and then straight on to the first connect().
handle_disconnect_begin(h) ==
    /\ Running(h) /\ pc[h] = "created"
    /\ connected' = FALSE
    /\ IF HandlerCloses
       THEN /\ pc' = [pc EXCEPT ![h] = "closing"]
            /\ closes' = [closes EXCEPT ![h] = @ + 1]
            /\ client_open' = FALSE
            /\ client_closing' = TRUE
            /\ wake' = Woken(WaitingLoops, "eof", h)
            /\ ready' = Tail(ready) \o SeqOf(WaitingLoops)
            /\ UNCHANGED attempts
       ELSE /\ pc' = [pc EXCEPT ![h] = "connecting"]
            /\ attempts' = [attempts EXCEPT ![h] = @ + 1]
            /\ ready' = Tail(ready)
            /\ UNCHANGED <<closes, clientVars, wake>>
    /\ UNCHANGED <<delay, entityVars, result, receive_task, callbacks, fails, inbox,
                   pending_exc, awaiting, nLoops, envVars, setupVars, log>>

\* close() returned, or the sleep after a failed attempt is over and attempts
\* are left (for attempt in range(5)): the next connect().
handle_disconnect_attempt(h) ==
    /\ Running(h) /\ wake[h] = "ok"
    /\ \/ pc[h] = "closing"
       \/ pc[h] = "sleeping" /\ attempts[h] < MaxAttempts
    /\ pc' = [pc EXCEPT ![h] = "connecting"]
    /\ attempts' = [attempts EXCEPT ![h] = @ + 1]
    /\ wake' = [wake EXCEPT ![h] = "none"]
    /\ ready' = Tail(ready)
    /\ UNCHANGED <<delay, entityVars, result, coordVars, clientVars, fails, closes, inbox, pending_exc, awaiting, nLoops, envVars, setupVars, log>>

\* Mutant: the handler forgets to raise the flag after a successful connect().
handle_disconnect_connected_flag_down(h) ==
    /\ Running(h) /\ pc[h] = "connecting" /\ wake[h] = "ok"
    /\ nLoops' = nLoops + 1
    /\ receive_task' = nLoops + 1
    /\ pc' = [pc EXCEPT ![h] = "done", ![LoopT(nLoops + 1)] = "created"]
    /\ result' = [result EXCEPT ![h] = "reconnected"]
    /\ wake' = [wake EXCEPT ![h] = "none"]
    /\ ready' = Tail(ready) \o <<LoopT(nLoops + 1)>>
    /\ HandlerReturns(h)
    /\ UNCHANGED <<delay, entityVars, connected, callbacks, clientVars, inbox, pending_exc, awaiting,
                   envVars, setupVars, log>>

\* Mutant: no return after a successful connect(): the handler goes on to
\* the next attempt of range(5).
handle_disconnect_connected_no_return(h) ==
    /\ Running(h) /\ pc[h] = "connecting" /\ wake[h] = "ok"
    /\ nLoops < MaxLoops
    /\ connected' = TRUE
    /\ nLoops' = nLoops + 1
    /\ receive_task' = nLoops + 1
    /\ wake' = [wake EXCEPT ![h] = "none"]
    /\ ready' = Tail(ready) \o <<LoopT(nLoops + 1)>>
    /\ IF attempts[h] < MaxAttempts
       THEN /\ pc' = [pc EXCEPT ![h] = "connecting", ![LoopT(nLoops + 1)] = "created"]
            /\ attempts' = [attempts EXCEPT ![h] = @ + 1]
            /\ UNCHANGED <<result, fails, closes>>
       ELSE /\ pc' = [pc EXCEPT ![h] = "done", ![LoopT(nLoops + 1)] = "created"]
            /\ result' = [result EXCEPT ![h] = "exhausted"]
            /\ HandlerReturns(h)
    /\ UNCHANGED <<delay, entityVars, callbacks, clientVars, inbox, pending_exc, awaiting, envVars,
                   setupVars, log>>

\* connect() returned: the flag goes up, a receive loop is spawned, return.
handle_disconnect_connected(h) ==
    /\ Running(h) /\ pc[h] = "connecting" /\ wake[h] = "ok"
    /\ connected' = TRUE
    /\ nLoops' = nLoops + 1
    /\ receive_task' = nLoops + 1
    /\ pc' = [pc EXCEPT ![h] = "done", ![LoopT(nLoops + 1)] = "created"]
    /\ result' = [result EXCEPT ![h] = "reconnected"]
    /\ wake' = [wake EXCEPT ![h] = "none"]
    /\ ready' = Tail(ready) \o <<LoopT(nLoops + 1)>>
    /\ HandlerReturns(h)
    /\ UNCHANGED <<delay, entityVars, callbacks, clientVars, inbox, pending_exc, awaiting, envVars,
                   setupVars, log>>

\* Mutant: the receive loop is spawned after the try statement, also when
\* connect() raised.
handle_disconnect_failed_spawns(h) ==
    /\ Running(h) /\ pc[h] = "connecting" /\ wake[h] = "fail"
    /\ nLoops < MaxLoops
    /\ fails' = [fails EXCEPT ![h] = @ + 1]
    /\ nLoops' = nLoops + 1
    /\ receive_task' = nLoops + 1
    /\ pc' = [pc EXCEPT ![h] = "sleeping", ![LoopT(nLoops + 1)] = "created"]
    /\ delay' = [delay EXCEPT ![h] = ReconnectDelay]
    /\ wake' = [wake EXCEPT ![h] = "none"]
    /\ ready' = Tail(ready) \o <<LoopT(nLoops + 1)>>
    /\ UNCHANGED <<entityVars, result, connected, callbacks, clientVars, attempts, closes, inbox,
                   pending_exc, awaiting, envVars, setupVars, log>>

\* Mutant: no sleep after a failed attempt: the next attempt follows at once,
\* or the handler gives up.
handle_disconnect_failed_no_sleep(h) ==
    /\ Running(h) /\ pc[h] = "connecting" /\ wake[h] = "fail"
    /\ fails' = [fails EXCEPT ![h] = IF attempts[h] < MaxAttempts THEN @ + 1 ELSE 0]
    /\ attempts' = [attempts EXCEPT ![h] = IF @ < MaxAttempts THEN @ + 1 ELSE 0]
    /\ closes' = [closes EXCEPT ![h] = IF attempts[h] < MaxAttempts THEN @ ELSE 0]
    /\ pc' = [pc EXCEPT ![h] = IF attempts[h] < MaxAttempts THEN "connecting" ELSE "done"]
    /\ result' = [result EXCEPT ![h] = IF attempts[h] < MaxAttempts THEN @ ELSE "exhausted"]
    /\ wake' = [wake EXCEPT ![h] = "none"]
    /\ ready' = Tail(ready)
    /\ UNCHANGED <<delay, entityVars, coordVars, clientVars, inbox,
                   pending_exc, awaiting, nLoops, envVars, setupVars, log>>

\* connect() raised: the warning, then `await asyncio.sleep(10)`.
handle_disconnect_failed(h) ==
    /\ Running(h) /\ pc[h] = "connecting" /\ wake[h] = "fail"
    /\ fails' = [fails EXCEPT ![h] = @ + 1]
    /\ pc' = [pc EXCEPT ![h] = "sleeping"]
    /\ delay' = [delay EXCEPT ![h] = ReconnectDelay]
    /\ wake' = [wake EXCEPT ![h] = "none"]
    /\ ready' = Tail(ready)
    /\ UNCHANGED <<entityVars, result, coordVars, clientVars, attempts, closes, inbox,
                   pending_exc, awaiting, nLoops, envVars, setupVars, log>>

\* Mutant: the attempts are wrapped in an endless loop: after the fifth
\* failure the handler starts over with a first attempt.
handle_disconnect_exhausted_starts_over(h) ==
    /\ Running(h) /\ pc[h] = "sleeping" /\ wake[h] = "ok"
    /\ attempts[h] >= MaxAttempts
    /\ pc' = [pc EXCEPT ![h] = "connecting"]
    /\ attempts' = [attempts EXCEPT ![h] = 1]
    /\ fails' = [fails EXCEPT ![h] = 0]
    /\ wake' = [wake EXCEPT ![h] = "none"]
    /\ ready' = Tail(ready)
    /\ UNCHANGED <<delay, entityVars, result, coordVars, clientVars, closes, inbox,
                   pending_exc, awaiting, nLoops, envVars, setupVars, log>>

\* The sleep after the last attempt is over: the loop over range(5) is
\* exhausted, the error is logged and the handler returns.
handle_disconnect_exhausted(h) ==
    /\ Running(h) /\ pc[h] = "sleeping" /\ wake[h] = "ok"
    /\ attempts[h] >= MaxAttempts
    /\ pc' = [pc EXCEPT ![h] = "done"]
    /\ result' = [result EXCEPT ![h] = "exhausted"]
    /\ wake' = [wake EXCEPT ![h] = "none"]
    /\ ready' = Tail(ready)
    /\ HandlerReturns(h)
    /\ UNCHANGED <<delay, entityVars, coordVars, clientVars, inbox, pending_exc, awaiting, nLoops,
                   envVars, setupVars, log>>

\* ------------------------------------------------------- the environment
\* No close() of the client is still under way.
NoClosePending ==
    \A t \in Tasks : pc[t] \notin {"close", "closing"} \/ wake[t] # "none"

\* The transport answers a pending connect(): the session is established, or
\* connect raises.  The client has finished closing the old session by then.
ConnectReturns(t, ok) ==
    /\ pc[t] = "connecting" /\ wake[t] = "none"
    /\ NoClosePending
    /\ wake' = [wake EXCEPT ![t] = IF ok THEN "ok" ELSE "fail"]
    /\ ready' = Append(ready, t)
    /\ client_open' = (ok \/ client_open)
    /\ client_closing' = (~ok /\ client_closing)
    /\ UNCHANGED <<delay, entityVars, pc, result, coordVars, countVars, inbox, pending_exc, awaiting,
                   nLoops, envVars, setupVars, log>>

\* A pending close() completes; or a pending sleep, when its delay has elapsed.
AwaitReturns(t) ==
    /\ pc[t] \in {"close", "closing", "sleeping"} /\ wake[t] = "none"
    /\ wake' = [wake EXCEPT ![t] = "ok"]
    /\ ready' = Append(ready, t)
    /\ delay' = [h \in Handlers |-> IF h = t THEN 0 ELSE delay[h]]
    /\ UNCHANGED <<entityVars, pc, result, coordVars, clientVars, countVars, inbox, pending_exc,
                   awaiting, nLoops, envVars, setupVars, log>>

\* The device sends a message: the loop waiting on the stream is woken with it.
MessageArrives(t) ==
    /\ client_open /\ nMsgs < MaxMsgs
    /\ t \in WaitingLoops
    /\ nMsgs' = nMsgs + 1
    /\ inbox' = [inbox EXCEPT ![t] = nMsgs + 1]
    /\ wake' = [wake EXCEPT ![t] = "msg"]
    /\ ready' = Append(ready, t)
    /\ UNCHANGED <<delay, entityVars, pc, result, coordVars, clientVars, countVars, pending_exc,
                   awaiting, nLoops, nHandlers, setupVars, log>>

\* The connection drops: the stream ends for the loops that wait on it, and the
\* transport calls connection_lost_callback (_handle_disconnect) as a new task.
ConnectionLost ==
    /\ client_open /\ nHandlers < MaxHandlers
    /\ client_open' = FALSE
    /\ nHandlers' = nHandlers + 1
    /\ pc' = [pc EXCEPT ![HandT(nHandlers + 1)] = "created"]
    /\ wake' = [t \in Tasks |-> IF t \in WaitingLoops THEN "eof" ELSE wake[t]]
    /\ ready' = ready \o SeqOf(WaitingLoops) \o <<HandT(nHandlers + 1)>>
    /\ UNCHANGED <<delay, entityVars, result, coordVars, client_closing, countVars, inbox, pending_exc,
                   awaiting, nLoops, nMsgs, setupVars, log>>

\* Somebody calls stop() once setup is over (async_unload_entry does); calls
\* do not overlap.
StopCalled ==
    /\ pc[SetupT] = "done"
    /\ pc[StopT] \in {"none", "done"}
    /\ pc' = [pc EXCEPT ![StopT] = "created"]
    /\ result' = [result EXCEPT ![StopT] = "none"]
    /\ ready' = Append(ready, StopT)
    /\ UNCHANGED <<delay, entityVars, wake, coordVars, clientVars, countVars, inbox, pending_exc,
                   awaiting, nLoops, envVars, setupVars, log>>

\* ================================================== VentAxiaRuntimeTimer
\* The timer's tasks run on the same kind of event loop: `ready`, `pc`, `wake`
\* and `result` are used for them as for the coordinator's tasks.

\* The state after VentAxiaRuntimeTimer.__init__, nothing called yet.
TimerInit ==
    /\ pc = [t \in TimerTasks |-> "none"]
    /\ wake = [t \in TimerTasks |-> "none"]
    /\ ready = <<>>
    /\ result = [t \in TimerTasks |-> "none"]
    /\ connected = FALSE
    /\ receive_task = 0
    /\ callbacks = <<>>
    /\ client_open = FALSE
    /\ client_closing = FALSE
    /\ attempts = [t \in Tasks |-> 0]
    /\ fails = [t \in Tasks |-> 0]
    /\ closes = [t \in Tasks |-> 0]
    /\ inbox = [t \in Loops |-> 0]
    /\ pending_exc = [t \in Loops |-> FALSE]
    /\ awaiting = 0
    /\ nLoops = 0
    /\ nHandlers = 0
    /\ nMsgs = 0
    /\ registered = FALSE
    /\ forwarded = FALSE
    /\ services = FALSE
    /\ log = <<>>
    /\ TimerCreated
    /\ NoCommands
    /\ NoFlows
    /\ NoEntities

\* int(delta.total_seconds()): the whole seconds of a time difference, the
\* fraction dropped towards zero.
WholeSeconds(d) ==
    IF d >= 0 THEN d \div TicksPerSecond ELSE 0 - ((0 - d) \div TicksPerSecond)

\* Mutant: the property returns int(...) as it is, without max(0, ...).
remaining_unclamped ==
    IF timer_state # "active" \/ timer_finish = 0 THEN 0
    ELSE WholeSeconds(timer_finish - now)

\* The property `remaining`: 0 unless active with a finish time, else
\* max(0, int((finish - now).total_seconds())).
remaining ==
    IF timer_state # "active" \/ timer_finish = 0 THEN 0
    ELSE IF WholeSeconds(timer_finish - now) > 0
         THEN WholeSeconds(timer_finish - now) ELSE 0

\* The timer entity calls async_write_ha_state: `writes` are the states
\* written in this step, each with the place that wrote it; the flag turns
\* over with every step that writes.
WriteStates(writes) == timer_written' = <<1 - timer_written[1], writes>>

\* Mutant: native_value returns the seconds since the start.
timer_native_value_elapsed ==
    IF timer_start = 0 THEN Value(0) ELSE Value(WholeSeconds(now - timer_start))
\* native_value of the timer: `return self.remaining`.
timer_native_value == Value(remaining)

\* Mutant: start never takes the early return.
AlreadyRunning_never == FALSE
\* `if self._timer_state == "active" and self._update_task: return`
AlreadyRunning == timer_state = "active" /\ update_task # 0

\* Mutant: timedelta(seconds=duration_minutes).
FinishTime_seconds(d) == now + d * TicksPerSecond
\* `now + timedelta(minutes=duration_minutes)`
FinishTime(d) == now + d * SecondsPerMinute * TicksPerSecond

\* async_start_timer has no await: one step.  A no-op when already running;
\* else active, the times, the "started" event, a ticking task unless the
\* handle holds one, and the state is written.
async_start_timer ==
    /\ Running(StartT) /\ pc[StartT] = "created"
    /\ IF AlreadyRunning
       THEN /\ pc' = [pc EXCEPT ![StartT] = "done"]
            /\ ready' = Tail(ready)
            /\ UNCHANGED <<timerFields, update_task, events, nTicks>>
       ELSE /\ timer_state' = "active"
            /\ timer_duration' = call_duration
            /\ timer_start' = now
            /\ timer_finish' = FinishTime(call_duration)
            /\ events' = Append(events, <<"started", call_duration>>)
            /\ IF update_task = 0
               THEN /\ update_task' = nTicks + 1
                    /\ nTicks' = nTicks + 1
                    /\ pc' = [pc EXCEPT ![StartT] = "done",
                                        ![TickT(nTicks + 1)] = "created"]
                    /\ ready' = Tail(ready) \o <<TickT(nTicks + 1)>>
               ELSE /\ pc' = [pc EXCEPT ![StartT] = "done"]
                    /\ ready' = Tail(ready)
                    /\ UNCHANGED <<update_task, nTicks>>
    /\ call_duration' = 0
    /\ start_overlap' = IF pc[CancelT] = "join" THEN call_duration ELSE 0
    /\ UNCHANGED <<wake, result, now, sleep_until, joiners, nCalls, nAdvances,
                   coordOnlyVars>>
    /\ IF AlreadyRunning
       THEN UNCHANGED timer_written
       ELSE WriteStates(<<(<<"start", timer_native_value'>>)>>)

\* `await self._update_task` suspends: the handle holds a task that has not ended.
JoinSuspends == update_task # 0 /\ pc[TickT(update_task)] # "done"

\* `self._update_task.cancel()` and `await self._update_task` by task t, the
\* handle's task u not ended.  u gets CancelledError at its next step (it is
\* made ready if it waits); t waits for u.  When u is t itself the await yields
\* the task to the loop, which resumes it with the pending CancelledError.
CancelAndJoin(t) ==
    LET u == TickT(update_task)
    IN  /\ pc' = [pc EXCEPT ![t] = "join"]
        /\ wake' = [wake EXCEPT ![u] = "cancel"]
        /\ ready' = Tail(ready) \o (IF InReady(u) /\ u # t THEN <<>> ELSE <<u>>)
        /\ joiners' = IF u = t THEN joiners
                      ELSE [joiners EXCEPT ![u] = Append(@, t)]

\* The tail of async_cancel_timer: idle, the "finished" event if asked for,
\* times and duration cleared.
ClearTimer(finished) ==
    /\ timer_state' = "idle"
    /\ events' = IF finished THEN Append(events, <<"finished", 0>>) ELSE events
    /\ timer_start' = 0
    /\ timer_finish' = 0
    /\ timer_duration' = 0

\* The ticking task t ends: the tasks that await it are woken, in order.
TickEnds(t, res) ==
    LET woken == {joiners[t][k] : k \in DOMAIN joiners[t]}
    IN  /\ pc' = [pc EXCEPT ![t] = "done"]
        /\ result' = [result EXCEPT ![t] = res]
        /\ wake' = [x \in DOMAIN wake |->
                      IF x = t THEN "none" ELSE IF x \in woken THEN "ok" ELSE wake[x]]
        /\ ready' = Tail(ready) \o joiners[t]
        /\ joiners' = [joiners EXCEPT ![t] = <<>>]

\* A ticking task cancelled before its first step: the coroutine is never
\* entered, so its finally does not run.
timer_loop_never_runs(t) ==
    /\ Running(t) /\ pc[t] = "created" /\ wake[t] = "cancel"
    /\ TickEnds(t, "cancelled")
    /\ UNCHANGED <<timer_written, timerFields, update_task, now, sleep_until, events, timerCalls,
                   nTicks, nAdvances, coordOnlyVars>>

\* CancelledError at the sleep: swallowed, finally clears the handle.
timer_loop_cancelled(t) ==
    /\ Running(t) /\ pc[t] = "sleep" /\ wake[t] = "cancel"
    /\ update_task' = 0
    /\ TickEnds(t, "ok")
    /\ sleep_until' = [sleep_until EXCEPT ![t] = 0]
    /\ UNCHANGED <<timer_written, timerFields, now, events, timerCalls, nTicks,
                   nAdvances, coordOnlyVars>>

\* One turn of the while loop, from the task's first step or from the sleep:
\* out of the loop when not active; the finish path when remaining <= 0 (it
\* cancels and awaits the handle's task); else the next sleep.
timer_loop_tick(t) ==
    /\ Running(t)
    /\ \/ pc[t] = "created" /\ wake[t] = "none"
       \/ pc[t] = "sleep" /\ wake[t] = "ok"
    /\ IF timer_state = "active" /\ timer_finish # 0
       THEN IF remaining <= 0
            THEN IF JoinSuspends
                 THEN /\ CancelAndJoin(t)
                      /\ WriteStates(<<(<<"tick", timer_native_value>>)>>)
                      /\ UNCHANGED <<timerFields, update_task, events, result,
                                     sleep_until>>
                 ELSE /\ ClearTimer(TRUE)
                      /\ WriteStates(<<(<<"tick", timer_native_value>>),
                                       (<<"cancel", timer_native_value'>>)>>)
                      /\ update_task' = 0
                      /\ TickEnds(t, "ok")
                      /\ UNCHANGED sleep_until
            ELSE /\ pc' = [pc EXCEPT ![t] = "sleep"]
                 /\ WriteStates(<<(<<"tick", timer_native_value>>)>>)
                 /\ wake' = [wake EXCEPT ![t] = "none"]
                 /\ ready' = Tail(ready)
                 /\ sleep_until' = [sleep_until EXCEPT
                                      ![t] = now + TickInterval * TicksPerSecond]
                 /\ UNCHANGED <<timerFields, update_task, events, result, joiners>>
       ELSE /\ update_task' = 0
            /\ TickEnds(t, "ok")
            /\ UNCHANGED <<timerFields, events, sleep_until, timer_written>>
    /\ UNCHANGED <<now, timerCalls, nTicks, nAdvances, coordOnlyVars>>

\* Mutant: the task's await of itself surfaces as an error (RuntimeError, "Task
\* cannot await on itself") instead of the pending CancelledError.
timer_loop_finish_raises(t) ==
    /\ Running(t) /\ pc[t] = "join" /\ wake[t] \in {"ok", "cancel"}
    /\ update_task' = 0
    /\ TickEnds(t, "exc")
    /\ UNCHANGED <<timer_written, timerFields, events, now, sleep_until, timerCalls, nTicks,
                   nAdvances, coordOnlyVars>>

\* The finish path after its await: the awaited task ended, or the task's own
\* CancelledError was swallowed by async_cancel_timer.  Handle cleared, idle,
\* "finished" fired, break, finally.
timer_loop_finish(t) ==
    /\ Running(t) /\ pc[t] = "join" /\ wake[t] \in {"ok", "cancel"}
    /\ ClearTimer(TRUE)
    /\ WriteStates(<<(<<"cancel", timer_native_value'>>)>>)
    /\ update_task' = 0
    /\ TickEnds(t, "ok")
    /\ UNCHANGED <<now, sleep_until, timerCalls, nTicks, nAdvances, coordOnlyVars>>

\* async_cancel_timer() called from outside, up to its await.
async_cancel_timer_begin ==
    /\ Running(CancelT) /\ pc[CancelT] = "created"
    /\ IF JoinSuspends
       THEN /\ CancelAndJoin(CancelT)
            /\ UNCHANGED <<timerFields, update_task, events, timer_written>>
       ELSE /\ ClearTimer(FALSE)
            /\ WriteStates(<<(<<"cancel", timer_native_value'>>)>>)
            /\ update_task' = 0
            /\ pc' = [pc EXCEPT ![CancelT] = "done"]
            /\ ready' = Tail(ready)
            /\ UNCHANGED <<wake, joiners>>
    /\ UNCHANGED <<result, now, sleep_until, timerCalls, nTicks, nAdvances,
                   coordOnlyVars>>

\* Mutant: cancel fires the "finished" event as the finish path does.
async_cancel_timer_resume_fires ==
    /\ Running(CancelT) /\ pc[CancelT] = "join" /\ wake[CancelT] = "ok"
    /\ ClearTimer(TRUE)
    /\ WriteStates(<<(<<"cancel", timer_native_value'>>)>>)
    /\ update_task' = 0
    /\ pc' = [pc EXCEPT ![CancelT] = "done"]
    /\ wake' = [wake EXCEPT ![CancelT] = "none"]
    /\ ready' = Tail(ready)
    /\ UNCHANGED <<result, now, sleep_until, joiners, timerCalls, nTicks, nAdvances,
                   coordOnlyVars>>

\* The awaited task ended: handle cleared, idle, times cleared.
async_cancel_timer_resume ==
    /\ Running(CancelT) /\ pc[CancelT] = "join" /\ wake[CancelT] = "ok"
    /\ ClearTimer(FALSE)
    /\ WriteStates(<<(<<"cancel", timer_native_value'>>)>>)
    /\ update_task' = 0
    /\ pc' = [pc EXCEPT ![CancelT] = "done"]
    /\ wake' = [wake EXCEPT ![CancelT] = "none"]
    /\ ready' = Tail(ready)
    /\ UNCHANGED <<result, now, sleep_until, joiners, timerCalls, nTicks, nAdvances,
                   coordOnlyVars>>

\* async_will_remove_from_hass up to its await.
async_will_remove_begin ==
    /\ Running(RemoveT) /\ pc[RemoveT] = "created"
    /\ IF JoinSuspends
       THEN /\ CancelAndJoin(RemoveT)
            /\ UNCHANGED update_task
       ELSE /\ update_task' = 0
            /\ pc' = [pc EXCEPT ![RemoveT] = "done"]
            /\ ready' = Tail(ready)
            /\ UNCHANGED <<wake, joiners>>
    /\ UNCHANGED <<timer_written, result, timerFields, events, now, sleep_until, timerCalls, nTicks,
                   nAdvances, coordOnlyVars>>

\* Mutant: removal returns without clearing the handle.
async_will_remove_resume_keeps_handle ==
    /\ Running(RemoveT) /\ pc[RemoveT] = "join" /\ wake[RemoveT] = "ok"
    /\ pc' = [pc EXCEPT ![RemoveT] = "done"]
    /\ wake' = [wake EXCEPT ![RemoveT] = "none"]
    /\ ready' = Tail(ready)
    /\ UNCHANGED <<timer_written, result, timerFields, update_task, events, now, sleep_until,
                   joiners, timerCalls, nTicks, nAdvances, coordOnlyVars>>

\* The awaited task ended: the handle is cleared, nothing else.
async_will_remove_resume ==
    /\ Running(RemoveT) /\ pc[RemoveT] = "join" /\ wake[RemoveT] = "ok"
    /\ update_task' = 0
    /\ pc' = [pc EXCEPT ![RemoveT] = "done"]
    /\ wake' = [wake EXCEPT ![RemoveT] = "none"]
    /\ ready' = Tail(ready)
    /\ UNCHANGED <<timer_written, result, timerFields, events, now, sleep_until, joiners,
                   timerCalls, nTicks, nAdvances, coordOnlyVars>>

\* ------------------------------------------------ the timer's environment
\* The entity layer calls async_start_timer(d).
StartRequested(d) ==
    /\ pc[StartT] \in {"none", "done"} /\ nCalls < MaxCalls
    /\ pc' = [pc EXCEPT ![StartT] = "created"]
    /\ call_duration' = d
    /\ nCalls' = nCalls + 1
    /\ ready' = Append(ready, StartT)
    /\ UNCHANGED <<start_overlap, timer_written, wake, result, timerFields, update_task, now, sleep_until, joiners,
                   events, nTicks, nAdvances, coordOnlyVars>>

\* The entity layer calls async_cancel_timer().
CancelRequested ==
    /\ pc[CancelT] \in {"none", "done"} /\ nCalls < MaxCalls
    /\ pc' = [pc EXCEPT ![CancelT] = "created"]
    /\ nCalls' = nCalls + 1
    /\ start_overlap' = 0
    /\ ready' = Append(ready, CancelT)
    /\ UNCHANGED <<timer_written, wake, result, timerFields, update_task, now, sleep_until, joiners,
                   events, call_duration, nTicks, nAdvances, coordOnlyVars>>

\* Home Assistant removes the entity.
RemoveRequested ==
    /\ pc[RemoveT] \in {"none", "done"} /\ nCalls < MaxCalls
    /\ pc' = [pc EXCEPT ![RemoveT] = "created"]
    /\ nCalls' = nCalls + 1
    /\ ready' = Append(ready, RemoveT)
    /\ UNCHANGED <<start_overlap, timer_written, wake, result, timerFields, update_task, now, sleep_until, joiners,
                   events, call_duration, nTicks, nAdvances, coordOnlyVars>>

\* Time passes.
TimePasses(d) ==
    /\ nAdvances < MaxAdvances
    /\ now' = now + d
    /\ nAdvances' = nAdvances + 1
    /\ UNCHANGED <<timer_written, pc, wake, ready, result, timerFields, update_task, sleep_until,
                   joiners, events, timerCalls, nTicks, coordOnlyVars>>

\* asyncio.sleep(1) of a ticking task is over.
SleepReturns(t) ==
    /\ pc[t] = "sleep" /\ wake[t] = "none" /\ now >= sleep_until[t]
    /\ wake' = [wake EXCEPT ![t] = "ok"]
    /\ ready' = Append(ready, t)
    /\ sleep_until' = [sleep_until EXCEPT ![t] = 0]
    /\ UNCHANGED <<timer_written, pc, result, timerFields, update_task, now, joiners,
                   events, timerCalls, nTicks, nAdvances, coordOnlyVars>>

TimerNext ==
    \/ async_start_timer
    \/ \E t \in Ticks : timer_loop_never_runs(t)
    \/ \E t \in Ticks : timer_loop_cancelled(t)
    \/ \E t \in Ticks : timer_loop_tick(t)
    \/ \E t \in Ticks : timer_loop_finish(t)
    \/ async_cancel_timer_begin
    \/ async_cancel_timer_resume
    \/ async_will_remove_begin
    \/ async_will_remove_resume
    \/ \E d \in Durations : StartRequested(d)
    \/ CancelRequested
    \/ RemoveRequested
    \/ \E d \in AdvanceSteps : TimePasses(d)
    \/ \E t \in Ticks : SleepReturns(t)

TimerSpec == TimerInit /\ [][TimerNext]_vars

\* ============================================================== entities
\* VentAxiaBaseSensor.available and VentAxiaBaseButton.available return
\* coordinator.available, which is the flag.
sensor_available == connected
button_available == connected
\* VentAxiaCommissionModeSelect and VentAxiaRuntimeTimer define no `available`:
\* they inherit Home Assistant's Entity.available, which is True.
select_available == TRUE
timer_available == TRUE

\* ============================================= buttons and service calls
\* The six buttons of button.py and the three services of async_setup_entry.
Buttons == {"reset_mode", "normal_mode", "boost_mode", "purge_mode",
            "commission_mode", "stop_commissioning_mode"}
Services == {"set_airflow_mode", "set_schedule", "set_summer_bypass"}
\* What a send can raise: ValueError, or anything else (ConnectionError stands
\* for it: the transport is closed, a timeout, ...).
Exceptions == {"ValueError", "ConnectionError"}

\* The service whose handler can return before its send: every field of the
\* summer-bypass schema is optional, so a call may carry none.  The airflow
\* service's own check repeats its schema, which has already rejected the call.
Checked == {"set_summer_bypass"}

\* The exceptions the handler catches around its send: `except Exception` in
\* every async_press; no try in async_set_airflow_mode_service; `except
\* ValueError` in the schedule and summer-bypass services.
Catches(kind) ==
    IF kind \in Buttons THEN Exceptions
    ELSE IF kind = "set_airflow_mode" THEN {}
    ELSE {"ValueError"}

\* The fields of the summer-bypass schema.
Fields == {"m_byp", "af_enp", "indoor_temp", "outdoor_temp"}
\* Values the schema lets through: an int for the two modes (In([0..3]),
\* In([0..4])), a float for the temperatures (Coerce(float)), held here in
\* hundredths of a degree; Coerce(float) lets nan and inf through as well.
Whole(n) == <<"int", n>>
Float(c) == <<"float", c>>
NonFinite == <<"nan", 0>>
FieldValues(f) ==
    IF f = "m_byp" THEN {Whole(0), Whole(3)}
    ELSE IF f = "af_enp" THEN {Whole(0), Whole(4)}
    ELSE {Float(0), Float(-55), NonFinite}
\* The data of a summer-bypass call: every field is optional.
BypassCalls ==
    UNION {{d \in [S -> UNION {FieldValues(f) : f \in S}] :
               \A f \in S : d[f] \in FieldValues(f)} : S \in SUBSET Fields}
\* The data of a call as far as the model follows it.
CallData(kind) == IF kind = "set_summer_bypass" THEN BypassCalls ELSE {NoData}

\* `call.data.get(f) is not None`: the field was supplied, whatever its value.
Supplied(data) == DOMAIN data
\* The key async_set_summer_bypass_service sends a field under.
Key(f) ==
    IF f = "indoor_temp" THEN "by_ti" ELSE IF f = "outdoor_temp" THEN "by_to" ELSE f
\* int(float(x) * 10) of a temperature given in hundredths: int() truncates
\* towards zero.
Tenths(c) == IF c >= 0 THEN c \div 10 ELSE -((-c) \div 10)
\* int(float(x) * 10) raises for nan (ValueError) and inf (OverflowError);
\* int(m_byp) and int(af_enp) never raise.
Converts(data) == \A f \in Supplied(data) : data[f] # NonFinite
\* data_to_send of async_set_summer_bypass_service.
BypassPayload(data) ==
    [k \in {Key(f) : f \in Supplied(data)} |->
        LET f == CHOOSE g \in Supplied(data) : Key(g) = k
        IN  IF data[f][1] = "int" THEN data[f][2] ELSE Tenths(data[f][2])]
\* `if not data_to_send: return`.
Passes(kind, data) == kind \notin Checked \/ Supplied(data) # {}

\* The command of the client library the handler ends in, with its
\* arguments (the airflow service's and the schedule's are not followed) and
\* the topic of async_send_update.
CommandOf(kind) ==
    IF kind = "commission_mode" THEN "start_commissioning"
    ELSE IF kind = "stop_commissioning_mode" THEN "stop_commissioning"
    ELSE IF kind \in {"set_schedule", "set_summer_bypass"} THEN "send_update_request"
    ELSE "send_airflow_mode_request"
ArgsOf(kind, data, mode) ==
    IF kind = "commission_mode" THEN [airflow |-> mode]
    ELSE IF kind = "reset_mode" THEN [mode |-> "reset", duration |-> 0]
    ELSE IF kind = "normal_mode" THEN [mode |-> "normal", duration |-> 15]
    ELSE IF kind = "boost_mode" THEN [mode |-> "boost", duration |-> 30]
    ELSE IF kind = "purge_mode" THEN [mode |-> "purge", duration |-> 60]
    ELSE IF kind = "set_summer_bypass" THEN BypassPayload(data)
    ELSE NoData
TopicOf(kind) ==
    IF kind \in {"set_schedule", "set_summer_bypass"} THEN "ee" ELSE "none"
SendOf(t) ==
    <<t, CommandOf(cmd_kind[t]), ArgsOf(cmd_kind[t], cmd_data[t], commission_mode),
      TopicOf(cmd_kind[t])>>

\* The handler gets as far as its send: always for a button, for the airflow
\* service and for the schedule service (its name is required); the
\* summer-bypass service returns early when the call has no field.
Reaches(kind, sends) == kind \notin Checked \/ sends

\* The state after a successful async_setup_entry: connected, the first
\* receive loop waiting for a message, entities and services registered.
CommandInit ==
    /\ pc = [t \in Tasks \cup CmdTasks |->
                IF t = SetupT THEN "done" ELSE IF t = LoopT(1) THEN "recv" ELSE "none"]
    /\ wake = [t \in Tasks \cup CmdTasks |-> "none"]
    /\ ready = <<>>
    /\ result = [t \in Tasks \cup CmdTasks |-> IF t = SetupT THEN "ok" ELSE "none"]
    /\ connected = TRUE
    /\ receive_task = 1
    /\ callbacks = Callbacks
    /\ client_open = TRUE
    /\ client_closing = FALSE
    /\ attempts = [t \in Tasks |-> IF t = SetupT THEN 1 ELSE 0]
    /\ fails = [t \in Tasks |-> 0]
    /\ closes = [t \in Tasks |-> 0]
    /\ inbox = [t \in Loops |-> 0]
    /\ pending_exc = [t \in Loops |-> FALSE]
    /\ awaiting = 0
    /\ nLoops = 1
    /\ nHandlers = 0
    /\ nMsgs = 0
    /\ registered = TRUE
    /\ forwarded = TRUE
    /\ services = TRUE
    /\ log = <<>>
    /\ TimerCreated
    /\ NoCommands
    /\ NoFlows
    /\ delay = [h \in Handlers |-> 0]
    /\ device = NewDevice
    /\ published = [k \in Sensors |-> SensorState(k, NewDevice, TRUE)]
    /\ remove_call = <<0, "none">>
    /\ nRemovals = 0

\* Home Assistant runs a button's async_press or a service handler in a task.
CommandRequested(kind, data) ==
    /\ nCmds < MaxCommands
    /\ pc' = [pc EXCEPT ![CmdT(nCmds + 1)] = "created"]
    /\ cmd_kind' = [cmd_kind EXCEPT ![CmdT(nCmds + 1)] = kind]
    /\ cmd_data' = [cmd_data EXCEPT ![CmdT(nCmds + 1)] = data]
    /\ cmd_sends' = [cmd_sends EXCEPT ![CmdT(nCmds + 1)] = Passes(kind, data)]
    /\ nCmds' = nCmds + 1
    /\ ready' = Append(ready, CmdT(nCmds + 1))
    /\ UNCHANGED <<delay, entityVars, wake, result, cmd_exc, sent, selectVars, coordVars, clientVars, countVars, inbox,
                   pending_exc, awaiting, nLoops, envVars, setupVars, log, timerVars>>

\* What the handler has done to the device model when it reaches its send:
\* async_update_schedule_service stores the encoded schedule in
\* processor.device._schedules (shrs_raw or ts_raw[name], and the decoded
\* form) before it sends; no other handler touches the model.
DeviceAtSend(kind, dev) ==
    IF kind = "set_schedule" THEN [dev EXCEPT !.schedules = Value(1)] ELSE dev

\* The handler up to `await self._coordinator.async_send_...`: building its
\* data raises, or it returns early when its own checks reject the input,
\* else it calls the client's command and awaits it.
command_send(t) ==
    /\ Running(t) /\ pc[t] = "created"
    /\ IF ~Converts(cmd_data[t])
       THEN /\ pc' = [pc EXCEPT ![t] = "done"]
            /\ result' = [result EXCEPT ![t] = "raised"]
            /\ UNCHANGED <<device, sent>>
       ELSE IF Reaches(cmd_kind[t], cmd_sends[t])
       THEN /\ pc' = [pc EXCEPT ![t] = "sending"]
            /\ device' = DeviceAtSend(cmd_kind[t], device)
            /\ sent' = Append(sent, SendOf(t))
            /\ UNCHANGED result
       ELSE /\ pc' = [pc EXCEPT ![t] = "done"]
            /\ result' = [result EXCEPT ![t] = "rejected"]
            /\ UNCHANGED <<device, sent>>
    /\ ready' = Tail(ready)
    /\ UNCHANGED <<delay, published, remove_call, nRemovals, wake, cmd_kind, cmd_sends,
                   cmd_exc, nCmds, cmd_data, selectVars, coordVars, clientVars, countVars, inbox,
                   pending_exc, awaiting, nLoops, envVars, setupVars, log, timerVars>>

\* The client library's send returns or raises; on a closed transport it raises.
SendReturns(t, exc) ==
    /\ t \in CmdTasks /\ pc[t] = "sending" /\ wake[t] = "none"
    /\ exc \in Exceptions \cup {"none"}
    /\ ~client_open => exc # "none"
    /\ wake' = [wake EXCEPT ![t] = "ok"]
    /\ cmd_exc' = [cmd_exc EXCEPT ![t] = exc]
    /\ ready' = Append(ready, t)
    /\ UNCHANGED <<delay, entityVars, pc, result, cmd_kind, cmd_sends, nCmds, cmd_data,
                   sent, selectVars, coordVars, clientVars,
                   countVars, inbox, pending_exc, awaiting, nLoops, envVars,
                   setupVars, log, timerVars>>

\* The handler after its await: the command was sent; or the exception is
\* caught and logged; or it leaves the handler.
command_return(t) ==
    /\ Running(t) /\ pc[t] = "sending" /\ wake[t] = "ok"
    /\ pc' = [pc EXCEPT ![t] = "done"]
    /\ result' = [result EXCEPT ![t] =
            IF cmd_exc[t] = "none" THEN "sent"
            ELSE IF cmd_exc[t] \in Catches(cmd_kind[t]) THEN "logged"
            ELSE "raised"]
    /\ wake' = [wake EXCEPT ![t] = "none"]
    /\ ready' = Tail(ready)
    /\ UNCHANGED <<delay, entityVars, commandVars, coordVars, clientVars, countVars, inbox,
                   pending_exc, awaiting, nLoops, envVars, setupVars, log, timerVars>>

\* Commands run beside the receive loop, which goes on processing messages.
CommandNext ==
    \/ \E kind \in Buttons \cup Services, data \in BypassCalls \cup {NoData} :
          data \in CallData(kind) /\ CommandRequested(kind, data) /\ UNCHANGED flowVars
    \/ \E t \in CmdTasks : command_send(t) /\ UNCHANGED flowVars
    \/ \E t \in CmdTasks, exc \in Exceptions \cup {"none"} :
          SendReturns(t, exc) /\ UNCHANGED flowVars
    \/ \E t \in CmdTasks : command_return(t) /\ UNCHANGED flowVars
    \/ \E t \in Loops : MessageArrives(t) /\ UNCHANGED <<timerVars, commandVars, flowVars>>
    \/ \E t \in Loops : receive_loop_message(t) /\ UNCHANGED <<timerVars, commandVars, flowVars>>
    \/ \E t \in Loops : AwaitReturns(t) /\ UNCHANGED <<timerVars, commandVars, flowVars>>
    \/ \E t \in Loops : receive_loop_closed(t) /\ UNCHANGED <<timerVars, commandVars, flowVars>>

CommandSpec == CommandInit /\ [][CommandNext]_vars

\* ------------------------------------------------- the commissioning mode
\* _attr_options of VentAxiaCommissionModeSelect, and what its
\* async_select_option may be called with: an option or something else.
Options == {"normal", "boost"}
Selectable == Options \cup {"purge"}

\* Mutant: the option is stored unchecked.
async_select_option_unchecked(option) ==
    /\ forwarded /\ Len(selections) < MaxSelects
    /\ selections' = Append(selections, option)
    /\ commission_mode' = option
    /\ UNCHANGED <<pc, wake, ready, result, coordVars, clientVars, countVars, inbox,
                   pending_exc, awaiting, nLoops, envVars, setupVars, log, timerVars,
                   cmd_kind, cmd_sends, cmd_exc, nCmds, cmd_data, sent, delay,
                   entityVars, flowVars>>
\* VentAxiaCommissionModeSelect.async_select_option: the coroutine has no
\* await, so it runs in one piece once the event loop starts it.
async_select_option(option) ==
    /\ forwarded /\ Len(selections) < MaxSelects
    /\ selections' = Append(selections, option)
    /\ commission_mode' = IF option \in Options THEN option ELSE commission_mode
    /\ UNCHANGED <<pc, wake, ready, result, coordVars, clientVars, countVars, inbox,
                   pending_exc, awaiting, nLoops, envVars, setupVars, log, timerVars,
                   cmd_kind, cmd_sends, cmd_exc, nCmds, cmd_data, sent, delay,
                   entityVars, flowVars>>

\* The select is used while buttons are pressed.
SelectNext ==
    \/ \E option \in Selectable : async_select_option(option)
    \/ \E kind \in Buttons : CommandRequested(kind, NoData) /\ UNCHANGED flowVars
    \/ \E t \in CmdTasks : command_send(t) /\ UNCHANGED flowVars
    \/ \E t \in CmdTasks, exc \in Exceptions \cup {"none"} :
          SendReturns(t, exc) /\ UNCHANGED flowVars
    \/ \E t \in CmdTasks : command_return(t) /\ UNCHANGED flowVars

SelectSpec == CommandInit /\ [][SelectNext]_vars

\* ================================================ the callback registry
\* Mutant: removing a callback that is not registered is ignored silently,
\* and the registry is emptied.
remove_update_callback_clears(cb) ==
    /\ nRemovals < MaxRemovals
    /\ nRemovals' = nRemovals + 1
    /\ IF \E i \in DOMAIN callbacks : callbacks[i] = cb
       THEN /\ callbacks' = RemoveFirst(callbacks, cb)
            /\ remove_call' = <<cb, "removed">>
       ELSE /\ callbacks' = <<>>
            /\ remove_call' = <<cb, "removed">>
    /\ UNCHANGED <<pc, wake, ready, result, connected, receive_task, clientVars,
                   countVars, inbox, pending_exc, awaiting, nLoops, envVars,
                   setupVars, log, delay, device, published>>

\* remove_update_callback(cb), as a sensor's async_will_remove_from_hass calls
\* it: self._callbacks.remove(cb) takes the first cb out of the list, and
\* raises ValueError, the list untouched, when there is none.
remove_update_callback(cb) ==
    /\ nRemovals < MaxRemovals
    /\ nRemovals' = nRemovals + 1
    /\ IF \E i \in DOMAIN callbacks : callbacks[i] = cb
       THEN /\ callbacks' = RemoveFirst(callbacks, cb)
            /\ remove_call' = <<cb, "removed">>
       ELSE /\ callbacks' = callbacks
            /\ remove_call' = <<cb, "ValueError">>
    /\ UNCHANGED <<pc, wake, ready, result, connected, receive_task, clientVars,
                   countVars, inbox, pending_exc, awaiting, nLoops, envVars,
                   setupVars, log, delay, device, published>>

\* Entities are removed beside the receive loop, which goes on notifying the
\* callbacks that are left.
EntityNext ==
    \/ \E cb \in Sensors \cup {Stranger} :
          remove_update_callback(cb) /\ UNCHANGED <<timerVars, commandVars, flowVars>>
    \/ \E t \in Loops : MessageArrives(t) /\ UNCHANGED <<timerVars, commandVars, flowVars>>
    \/ \E t \in Loops : receive_loop_message(t) /\ UNCHANGED <<timerVars, commandVars, flowVars>>
    \/ \E t \in Loops : AwaitReturns(t) /\ UNCHANGED <<timerVars, commandVars, flowVars>>
    \/ \E t \in Loops : receive_loop_closed(t) /\ UNCHANGED <<timerVars, commandVars, flowVars>>

EntitySpec == CommandInit /\ [][EntityNext]_vars

\* ------------------------------------------------- async_unload_entry
\* Home Assistant unloads the entry: async_unload_entry runs in a task.
UnloadRequested ==
    /\ pc[StopT] = "none"
    /\ pc' = [pc EXCEPT ![StopT] = "created"]
    /\ ready' = Append(ready, StopT)
    /\ UNCHANGED <<delay, entityVars, wake, result, coordVars, clientVars, countVars,
                   inbox, pending_exc, awaiting, nLoops, envVars, setupVars, log>>

\* The end of async_unload_entry once async_stop is over: when async_stop
\* raised, so does the unload; else async_unload_platforms removes the
\* entities (each takes its update callback out, its state goes).  Nothing
\* removes the three services.
UnloadEnds(outcome) ==
    /\ pc' = [pc EXCEPT ![StopT] = "done"]
    /\ result' = [result EXCEPT ![StopT] =
            IF outcome = "ok" THEN "unloaded" ELSE outcome]
    /\ awaiting' = 0
    /\ forwarded' = (forwarded /\ outcome # "ok")
    /\ callbacks' = IF outcome = "ok" THEN <<>> ELSE callbacks
    /\ published' = IF outcome = "ok" THEN [k \in Sensors |-> Absent] ELSE published
    /\ UNCHANGED services

\* async_unload_entry up to `await self._receive_task` in async_stop: the
\* coordinator is popped from hass.data; then async_stop as in
\* async_stop_begin.
async_unload_entry_begin ==
    LET l == LoopT(receive_task)
        goes == receive_task = 0 \/ pc[l] = "done"
        wakes == IF ~goes /\ ~InReady(l) THEN {l} ELSE {}
    IN  /\ Running(StopT) /\ pc[StopT] = "created"
        /\ registered' = FALSE
        /\ IF goes
           THEN /\ UnloadEnds(IF receive_task = 0 THEN "ok" ELSE StopOutcome(result[l]))
                /\ UNCHANGED wake
           ELSE /\ pc' = [pc EXCEPT ![StopT] = "awaiting"]
                /\ awaiting' = receive_task
                /\ wake' = [t \in DOMAIN wake |-> IF t = l THEN "cancel" ELSE wake[t]]
                /\ UNCHANGED <<result, forwarded, services, callbacks, published>>
        /\ ready' = Tail(ready) \o SeqOf(wakes)
        /\ UNCHANGED <<delay, device, remove_call, nRemovals, connected, receive_task,
                       clientVars, countVars, inbox, pending_exc, nLoops, envVars, log>>

\* The awaited receive loop ended: async_stop returns or raises, and the
\* unload goes on.
async_unload_entry_resume ==
    /\ Running(StopT) /\ pc[StopT] = "awaiting" /\ wake[StopT] = "ok"
    /\ UnloadEnds(StopOutcome(result[LoopT(awaiting)]))
    /\ wake' = [wake EXCEPT ![StopT] = "none"]
    /\ ready' = Tail(ready)
    /\ UNCHANGED <<delay, device, remove_call, nRemovals, connected, receive_task,
                   registered, clientVars, countVars, inbox, pending_exc, nLoops,
                   envVars, log>>

\* An entry is unloaded while services are called (Home Assistant calls a
\* service as long as it is registered) and the receive loop runs.
UnloadNext ==
    \/ UnloadRequested /\ UNCHANGED <<timerVars, commandVars, flowVars>>
    \/ async_unload_entry_begin /\ UNCHANGED <<timerVars, commandVars, flowVars>>
    \/ async_unload_entry_resume /\ UNCHANGED <<timerVars, commandVars, flowVars>>
    \/ \E kind \in Services, data \in BypassCalls \cup {NoData} :
          /\ services /\ data \in CallData(kind)
          /\ CommandRequested(kind, data) /\ UNCHANGED flowVars
    \/ \E t \in CmdTasks : command_send(t) /\ UNCHANGED flowVars
    \/ \E t \in CmdTasks, exc \in Exceptions \cup {"none"} :
          SendReturns(t, exc) /\ UNCHANGED flowVars
    \/ \E t \in CmdTasks : command_return(t) /\ UNCHANGED flowVars
    \/ \E t \in Loops : MessageArrives(t) /\ UNCHANGED <<timerVars, commandVars, flowVars>>
    \/ \E t \in Loops : receive_loop_message(t) /\ UNCHANGED <<timerVars, commandVars, flowVars>>
    \/ \E t \in Loops : receive_loop_exit(t) /\ UNCHANGED <<timerVars, commandVars, flowVars>>
    \/ \E t \in Loops : AwaitReturns(t) /\ UNCHANGED <<timerVars, commandVars, flowVars>>
    \/ \E t \in Loops : receive_loop_closed(t) /\ UNCHANGED <<timerVars, commandVars, flowVars>>

UnloadSpec == CommandInit /\ [][UnloadNext]_vars

\* ------------------------------------------------- callbacks that raise
\* A message arrived and process(msg) returned, but the bad-th callback of
\* _notify_update raises (async_write_ha_state can): the callbacks before it
\* have run, the `for` is left, the exception is no CancelledError and
\* leaves `async for` through finally.
receive_loop_message_raises(t, bad) ==
    /\ Running(t) /\ pc[t] = "recv" /\ wake[t] = "msg"
    /\ bad \in DOMAIN callbacks
    /\ LET called == SubSeq(_notify_update(t[2], inbox[t]), 1, bad - 1)
       IN  /\ log' = log \o <<(<<"p", t[2], inbox[t], Len(callbacks)>>)>> \o called
                         \o <<(<<"r", t[2], inbox[t], callbacks[bad]>>)>>
           /\ device' = process(device, inbox[t])
           /\ published' = Written(called, device, device')
    /\ LoopGoesOn(t, FALSE, TRUE)
    /\ UNCHANGED <<delay, remove_call, nRemovals, result, coordVars, attempts, fails,
                   awaiting, nLoops, envVars, setupVars>>

\* The receive loop with callbacks that may raise, beside removals of
\* entities (which change what is registered).
RaisingNext ==
    \/ \E cb \in Sensors :
          remove_update_callback(cb) /\ UNCHANGED <<timerVars, commandVars, flowVars>>
    \/ \E t \in Loops : MessageArrives(t) /\ UNCHANGED <<timerVars, commandVars, flowVars>>
    \/ \E t \in Loops : receive_loop_message(t) /\ UNCHANGED <<timerVars, commandVars, flowVars>>
    \/ \E t \in Loops, bad \in 1..Len(Callbacks) :
          receive_loop_message_raises(t, bad) /\ UNCHANGED <<timerVars, commandVars, flowVars>>
    \/ \E t \in Loops : AwaitReturns(t) /\ UNCHANGED <<timerVars, commandVars, flowVars>>
    \/ \E t \in Loops : receive_loop_closed(t) /\ UNCHANGED <<timerVars, commandVars, flowVars>>

RaisingSpec == CommandInit /\ [][RaisingNext]_vars

\* -------------------------------------------------------- the specification
Next ==
    \/ async_start_connect /\ UNCHANGED <<timerVars, commandVars, flowVars>>
    \/ async_start_connected /\ UNCHANGED <<timerVars, commandVars, flowVars>>
    \/ async_start_failed /\ UNCHANGED <<timerVars, commandVars, flowVars>>
    \/ \E t \in Loops : receive_loop_start(t) /\ UNCHANGED <<timerVars, commandVars, flowVars>>
    \/ \E t \in Loops : receive_loop_message(t) /\ UNCHANGED <<timerVars, commandVars, flowVars>>
    \/ \E t \in Loops : receive_loop_exit(t) /\ UNCHANGED <<timerVars, commandVars, flowVars>>
    \/ \E t \in Loops : receive_loop_closed(t) /\ UNCHANGED <<timerVars, commandVars, flowVars>>
    \/ \E t \in Loops : receive_loop_never_runs(t) /\ UNCHANGED <<timerVars, commandVars, flowVars>>
    \/ async_stop_begin /\ UNCHANGED <<timerVars, commandVars, flowVars>>
    \/ async_stop_resume /\ UNCHANGED <<timerVars, commandVars, flowVars>>
    \/ \E h \in Handlers : handle_disconnect_begin(h) /\ UNCHANGED <<timerVars, commandVars, flowVars>>
    \/ \E h \in Handlers : handle_disconnect_attempt(h) /\ UNCHANGED <<timerVars, commandVars, flowVars>>
    \/ \E h \in Handlers : handle_disconnect_connected(h) /\ UNCHANGED <<timerVars, commandVars, flowVars>>
    \/ \E h \in Handlers : handle_disconnect_failed(h) /\ UNCHANGED <<timerVars, commandVars, flowVars>>
    \/ \E h \in Handlers : handle_disconnect_exhausted(h) /\ UNCHANGED <<timerVars, commandVars, flowVars>>
    \/ \E t \in Tasks, ok \in BOOLEAN : ConnectReturns(t, ok) /\ UNCHANGED <<timerVars, commandVars, flowVars>>
    \/ \E t \in Tasks : AwaitReturns(t) /\ UNCHANGED <<timerVars, commandVars, flowVars>>
    \/ \E t \in Loops : MessageArrives(t) /\ UNCHANGED <<timerVars, commandVars, flowVars>>
    \/ ConnectionLost /\ UNCHANGED <<timerVars, commandVars, flowVars>>
    \/ StopCalled /\ UNCHANGED <<timerVars, commandVars, flowVars>>

Spec == Init /\ [][Next]_vars

\* The step of the task at the head of the event loop's queue.
TaskStep ==
    /\ \/ async_start_connect
       \/ async_start_connected
       \/ async_start_failed
       \/ \E t \in Loops : receive_loop_start(t)
       \/ \E t \in Loops : receive_loop_message(t)
       \/ \E t \in Loops : receive_loop_exit(t)
       \/ \E t \in Loops : receive_loop_closed(t)
       \/ \E t \in Loops : receive_loop_never_runs(t)
       \/ async_stop_begin
       \/ async_stop_resume
       \/ \E h \in Handlers : handle_disconnect_begin(h)
       \/ \E h \in Handlers : handle_disconnect_attempt(h)
       \/ \E h \in Handlers : handle_disconnect_connected(h)
       \/ \E h \in Handlers : handle_disconnect_failed(h)
       \/ \E h \in Handlers : handle_disconnect_exhausted(h)
    /\ UNCHANGED <<timerVars, commandVars, flowVars>>
\* A pending connect() returns or raises (it is bounded by the client's
\* timeout); a pending close() or sleep is over.
ConnectEnds ==
    /\ \E t \in Tasks, ok \in BOOLEAN : ConnectReturns(t, ok)
    /\ UNCHANGED <<timerVars, commandVars, flowVars>>
AwaitEnds ==
    /\ \E t \in Tasks : AwaitReturns(t)
    /\ UNCHANGED <<timerVars, commandVars, flowVars>>

\* Fair scheduling: the event loop runs the task at the head of its queue,
\* and every awaited connect, close and sleep comes to an end.  Messages,
\* connection losses and stop() calls are under no obligation to happen.
FairSpec ==
    /\ Spec
    /\ WF_vars(TaskStep)
    /\ WF_vars(ConnectEnds)
    /\ WF_vars(AwaitEnds)

\* ------------------------------------------------------------------ claims
\* Receive-loop tasks that were spawned and have not finished.
ActiveLoops == {t \in Loops : pc[t] \in {"created", "recv", "close"}}
\* Receive loops inside `async for`: waiting for, or holding, a message.
RunningLoops == {t \in Loops : pc[t] = "recv"}
\* Handler runs between their first step and their return.
BusyHandlers == {h \in Handlers : pc[h] \in {"closing", "connecting", "sleeping"}}
\* The task takes its step out of the await it stands at.
Leaves(t, at) == pc[t] = at /\ pc'[t] # at
\* A receive loop is spawned in this step.
Spawns == nLoops' = nLoops + 1 /\ pc'[LoopT(nLoops')] = "created"

\* C1: in every reachable state at most one receive-loop task exists that was
\* spawned and has not finished.
C1_OneReceiveLoop == Cardinality(ActiveLoops) <= 1
\* A second receive loop runs, after the first has finished.
C1_Witness ==
    /\ nLoops >= 2 /\ pc[LoopT(nLoops)] = "recv"
    /\ pc[LoopT(1)] = "done" /\ nMsgs >= 1

\* C2: the step in which a handler's connect() succeeds is its (K+1)-th attempt
\* after K < 5 failed ones; it sets the flag, spawns a receive loop and ends
\* the handler, which never attempts again.
C2_ReconnectOnSuccess ==
    [][\A h \in Handlers :
          /\ (Leaves(h, "connecting") /\ wake[h] = "ok") =>
                /\ attempts[h] = fails[h] + 1 /\ fails[h] < 5
                /\ connected' /\ Spawns /\ receive_task' = nLoops'
                /\ pc'[h] = "done"
          /\ pc[h] = "done" => pc'[h] = "done"]_vars
\* A handler has reconnected: the flag is up and its loop is about to run.
C2_Witness ==
    \E h \in Handlers :
        /\ result[h] = "reconnected" /\ connected
        /\ receive_task > 1 /\ pc[LoopT(receive_task)] = "created"

\* C3: a handler whose attempts all failed returns after exactly 5 attempts
\* and 5 failures, with the flag down and no loop spawned; from then on the
\* flag stays down and nobody calls connect().
C3_ExhaustedAfterFive ==
    [][/\ \A h \in Handlers :
            (Leaves(h, "sleeping") /\ pc'[h] = "done") =>
                /\ attempts[h] = 5 /\ fails[h] = 5
                /\ ~connected' /\ nLoops' = nLoops
                /\ result'[h] = "exhausted"
       /\ (\E h \in Handlers : result[h] = "exhausted") =>
            /\ ~connected /\ ~connected'
            /\ attempts' = attempts
            /\ \A t \in Tasks : pc'[t] = "connecting" => pc[t] = "connecting"]_vars
\* A handler has given up: the coordinator is left disconnected.
C3_Witness ==
    \E h \in Handlers : result[h] = "exhausted" /\ ~connected /\ ~client_open

\* C4: the log of the receive loops is a sequence of blocks, one per message
\* in arrival order: the processing of the message, then one call of every
\* registered callback, in registration order, before the next message.
LogMsgs == {k \in DOMAIN log : log[k][1] \in {"p", "x"}}
CallsOf(cb) == {k \in DOMAIN log : log[k][1] = "c" /\ log[k][4] = cb}
Quiescent ==
    /\ ready = <<>>
    /\ \A t \in Tasks : pc[t] \notin {"connecting", "closing", "close"}
\* C6 (as claimed): the flag is up iff the transport is open and a receive
\* loop runs; stated for the states in which nothing is in progress.
C6_ConnectedIffOpen ==
    Quiescent => (connected <=> (client_open /\ RunningLoops # {}))

\* C7: while a handler is between its first step and its return no receive
\* loop is inside `async for`, and a receive loop is spawned only by the
\* step of a task whose connect() has just succeeded.
C7_ReconnectExcludesLoop ==
    /\ [](BusyHandlers # {} => RunningLoops = {})
    /\ [][Spawns => \E t \in Tasks : Leaves(t, "connecting") /\ wake[t] = "ok"]_vars
\* A handler is retrying while the loop it replaces has gone.
C7_Witness ==
    \E h \in Handlers :
        /\ pc[h] = "sleeping" /\ fails[h] >= 1
        /\ nLoops >= 1 /\ ActiveLoops = {}

C9_StopRaisesNothing ==
    pc[StopT] = "done" =>
        /\ result[StopT] = "ok"
        /\ awaiting = 0

\* C10: when the connect() of start() fails, setup ends not-ready after that
\* single attempt: flag down, no receive loop, nothing registered.
C10_SetupNotReady ==
    /\ attempts[SetupT] <= 1
    /\ (pc[SetupT] = "done" /\ fails[SetupT] > 0) => result[SetupT] = "not_ready"
    /\ result[SetupT] = "not_ready" =>
          /\ attempts[SetupT] = 1 /\ fails[SetupT] = 1
          /\ ~connected /\ nLoops = 0 /\ receive_task = 0
          /\ ~registered /\ ~forwarded /\ ~services /\ callbacks = <<>>
\* Setup has failed, and stop() was called on the coordinator since.
C10_Witness == result[SetupT] = "not_ready" /\ pc[StopT] = "done"

\* C11: the first step of a handler calls close() exactly when the client is
\* not closing already, and before any connect(); a handler's run never calls
\* close() again.
C11_NoDoubleClose ==
    [][\A h \in Handlers :
          /\ Leaves(h, "created") =>
                /\ attempts[h] = 0 /\ closes[h] = 0
                /\ client_closing => (closes'[h] = 0 /\ pc'[h] = "connecting")
                /\ ~client_closing =>
                      (closes'[h] = 1 /\ attempts'[h] = 0 /\ pc'[h] = "closing")
          /\ pc[h] \in {"closing", "connecting", "sleeping"} =>
                closes'[h] <= closes[h]]_vars
\* A handler found the client closing and went to connect() without a close().
C11_Witness ==
    \E h \in Handlers :
        /\ pc[h] = "connecting" /\ closes[h] = 0 /\ attempts[h] = 1
        /\ \E t \in Loops : closes[t] = 1

\* ------------------------------------------------------ claims on the timer
\* Ticking tasks that were created and have not ended.
LiveTicks == {t \in Ticks : pc[t] \notin {"none", "done"}}
\* Task t, at the head of the queue, takes its step.
TakesStep(t) == Running(t) /\ (pc'[t] # pc[t] \/ wake'[t] # wake[t])
\* The step of async_start_timer.
StartStep == TakesStep(StartT) /\ pc[StartT] = "created"
\* The handle holds a task that has not ended.
HandleLive == update_task # 0 /\ TickT(update_task) \in LiveTicks
\* The "finished" event.
Finished == <<"finished", 0>>

\* C12: a start that finds the timer active with a live ticking task in the
\* handle changes nothing: no event, no task, state, duration and times as
\* they were.
C12_IdempotentStart ==
    [][(StartStep /\ timer_state = "active" /\ HandleLive) =>
          /\ events' = events
          /\ nTicks' = nTicks /\ LiveTicks' = LiveTicks
          /\ timerFields' = timerFields /\ update_task' = update_task]_vars
\* Two starts were served: one event, one task.
C12_Witness ==
    /\ nCalls = 2 /\ pc[StartT] = "done" /\ call_duration = 0
    /\ events = <<(<<"started", 1>>)>> /\ timer_duration = 1
    /\ nTicks = 1 /\ pc[TickT(1)] = "sleep"

\* C13: a tick of the handle's own task that sees remaining <= 0 cancels and
\* awaits itself; the task stays ready, and its next step leaves the timer
\* idle with remaining 0 and the handle cleared, fires the one "finished"
\* event of the run, and ends the task without an error.
C13_FinishPath ==
    /\ [](\A t \in Ticks : (pc[t] = "join" /\ wake[t] = "cancel") => InReady(t))
    /\ [][\A t \in Ticks :
            /\ (/\ TakesStep(t) /\ pc[t] \in {"created", "sleep"} /\ wake[t] # "cancel"
                /\ timer_state = "active" /\ timer_finish # 0 /\ remaining <= 0
                /\ t = TickT(update_task))
                  => /\ pc'[t] = "join" /\ wake'[t] = "cancel"
                     /\ events' = events /\ timerFields' = timerFields
            /\ (pc[t] = "join" /\ wake[t] = "cancel" /\ pc'[t] # "join")
                  => /\ pc'[t] = "done" /\ result'[t] = "ok"
                     /\ timer_state' = "idle" /\ remaining' = 0
                     /\ update_task' = 0
                     /\ events' = Append(events, Finished)
                     /\ events[Len(events)][1] = "started"]_vars
\* A one-minute timer ran out: started, finished, idle, task ended.
C13_Witness ==
    /\ events = <<(<<"started", 1>>), Finished>>
    /\ timer_state = "idle" /\ update_task = 0
    /\ pc[TickT(1)] = "done" /\ result[TickT(1)] = "ok" /\ nCalls = 1

\* C14: a cancel that finds the timer active with time left has the handle's
\* task stand in its loop; that task gets the CancelledError and ends without
\* an event; the cancel returns with the timer idle, remaining 0, times and
\* handle cleared, and fires nothing.
C14_CancelNoFinish ==
    [][/\ (/\ TakesStep(CancelT) /\ pc[CancelT] = "created"
           /\ timer_state = "active" /\ remaining > 0 /\ HandleLive)
             => /\ pc[TickT(update_task)] \in {"created", "sleep"}
                /\ wake'[TickT(update_task)] = "cancel"
                /\ pc'[CancelT] = "join" /\ events' = events
       /\ \A t \in Ticks :
             (TakesStep(t) /\ pc[t] \in {"created", "sleep"} /\ wake[t] = "cancel")
                => (pc'[t] = "done" /\ events' = events)
       /\ (pc[CancelT] \in {"created", "join"} /\ pc'[CancelT] = "done")
             => /\ timer_state' = "idle" /\ remaining' = 0
                /\ timer_start' = 0 /\ timer_finish' = 0 /\ timer_duration' = 0
                /\ update_task' = 0
                /\ events' = events]_vars
\* A running timer was cancelled half-way: no "finished" event.
C14_Witness ==
    /\ pc[CancelT] = "done" /\ nCalls = 2 /\ nAdvances >= 1
    /\ events = <<(<<"started", 1>>)>>
    /\ timer_state = "idle" /\ update_task = 0
    /\ pc[TickT(1)] = "done" /\ result[TickT(1)] = "ok"

\* C15 (as claimed): at most one ticking task exists in every reachable state.
C15_OneTickingTask == Cardinality(LiveTicks) <= 1

\* C16: while active, finish = start + duration minutes; while idle,
\* remaining is 0 (and the times and the duration are cleared).
C16_FinishIsStartPlusDuration ==
    /\ timer_state \in {"idle", "active"}
    /\ timer_state = "active" =>
          /\ timer_start # 0 /\ timer_duration \in Durations
          /\ timer_finish
               = timer_start + timer_duration * SecondsPerMinute * TicksPerSecond
    /\ timer_state = "idle" =>
          /\ remaining = 0
          /\ timer_start = 0 /\ timer_finish = 0 /\ timer_duration = 0
\* A two-minute timer is running and the clock has moved.
C16_Witness ==
    /\ timer_state = "active" /\ timer_duration = 2 /\ now > timer_start
    /\ remaining > SecondsPerMinute

\* C17 (as claimed): a start that finds the timer idle, or active without a
\* live ticking task, sets active, start = now, finish = now + duration, fires
\* one "started" event with the duration, and leaves exactly one ticking task.
C17_StartActs ==
    [][(StartStep /\ (timer_state = "idle" \/ ~HandleLive)) =>
          /\ timer_state' = "active"
          /\ timer_duration' = call_duration
          /\ timer_start' = now
          /\ timer_finish' = now + call_duration * SecondsPerMinute * TicksPerSecond
          /\ events' = Append(events, <<"started", call_duration>>)
          /\ Cardinality(LiveTicks') = 1]_vars

\* C18: a cancel or a removal that waits does so for a task that has not
\* ended and has its cancellation pending, and is woken only by that task's
\* end; when the call returns the handle is cleared; a start that finds the
\* handle cleared spawns a task that did not exist before.
C18_TeardownThenFresh ==
    /\ [](\A c \in {CancelT, RemoveT} :
            (pc[c] = "join" /\ wake[c] = "none") =>
                \E t \in LiveTicks :
                    /\ \E k \in DOMAIN joiners[t] : joiners[t][k] = c
                    /\ wake[t] = "cancel")
    /\ [][/\ \A c \in {CancelT, RemoveT} :
               /\ (pc[c] = "join" /\ wake[c] = "none" /\ wake'[c] = "ok") =>
                     \E t \in Ticks :
                        /\ \E k \in DOMAIN joiners[t] : joiners[t][k] = c
                        /\ pc'[t] = "done"
               /\ (pc[c] = "created" /\ pc'[c] = "done") => ~HandleLive
               /\ (pc[c] \in {"created", "join"} /\ pc'[c] = "done") =>
                     update_task' = 0
          /\ (StartStep /\ update_task = 0) =>
                /\ nTicks' = nTicks + 1 /\ update_task' = nTicks'
                /\ pc[TickT(nTicks')] = "none"
                /\ pc'[TickT(nTicks')] = "created"]_vars
\* A removal has ended the first task; a later start has spawned a second.
C18_Witness ==
    /\ pc[RemoveT] = "done" /\ pc[TickT(1)] = "done"
    /\ update_task = 2 /\ pc[TickT(2)] = "sleep"
    /\ Len(events) = 2

\* ------------------------------------------- claims on commands, entities
\* C19 (as claimed): a command task whose send raised ends with the exception
\* caught and logged, never with the exception leaving the handler; and no
\* step of a command task changes a receive loop.
C19_SendFailureDropped ==
    /\ [](\A t \in CmdTasks :
            (pc[t] = "done" /\ cmd_exc[t] # "none") => result[t] = "logged")
    /\ [][\A t \in CmdTasks : TakesStep(t) =>
            \A l \in Loops :
                pc'[l] = pc[l] /\ wake'[l] = wake[l] /\ result'[l] = result[l]]_vars

\* The coordinator is disconnected: a disconnect handler is at work, or one
\* has given up.
Disconnected ==
    BusyHandlers # {} \/ \E h \in Handlers : result[h] = "exhausted"
\* C20 (as claimed): while the coordinator is disconnected every entity that
\* was set up reports available = false.
C20_EntitiesUnavailable ==
    (forwarded /\ Disconnected) =>
        /\ ~sensor_available /\ ~button_available
        /\ ~select_available /\ ~timer_available

\* ------------------------------------------------------ the config flow
\* What `await client.connect(timeout=10.0)` and `await client.close()` can
\* raise: ssl.SSLError with the close-notify text, another ssl.SSLError, or an
\* exception of another class (OSError, TimeoutError).
FlowExceptions == {"SSLError_close_notify", "SSLError", "OSError"}

\* validate_input's try statement: what leaves it when an await raised exc.
\* The close-notify SSLError is logged only; another SSLError becomes
\* CannotConnect; any other exception is logged and re-raised as it is.
validate_input(exc) ==
    IF exc \in {"none", "SSLError_close_notify"} THEN "none"
    ELSE IF exc = "SSLError" THEN "CannotConnect"
    ELSE exc

\* validate_input's return value: the title.
Title(host) == <<"VentAxia Device (">> \o Text(host) \o <<")">>

\* async_step_user's except clauses: errors["base"].
StepErrors(raised) ==
    IF raised = "CannotConnect" THEN "cannot_connect" ELSE "unknown"

\* ConfigFlow._abort_if_unique_id_configured: an entry of the domain has the
\* flow's unique id.
Configured_never(unique_id) == FALSE
Configured(unique_id) ==
    \E k \in DOMAIN entries : entries[k].unique_id = unique_id

\* Home Assistant calls the user step: with None to show the empty form, or
\* with what the user typed.
FlowSubmitted(input) ==
    /\ nFlows < MaxFlows
    /\ input \in UserInputs \cup {NoInput}
    /\ pc' = [pc EXCEPT ![FlowT(nFlows + 1)] = "created"]
    /\ flow_input' = [flow_input EXCEPT ![FlowT(nFlows + 1)] = input]
    /\ flow_known' = [flow_known EXCEPT ![FlowT(nFlows + 1)] =
            input # NoInput /\ Configured(input.wifi_device_id)]
    /\ nFlows' = nFlows + 1
    /\ ready' = Append(ready, FlowT(nFlows + 1))
    /\ UNCHANGED <<wake, result, entries, flow_exc, flow_result>>

\* async_step_user up to `await client.connect(...)` in validate_input; with
\* user_input None it shows the form with no errors.
async_step_user_begin(f) ==
    /\ Running(f) /\ pc[f] = "created"
    /\ IF flow_input[f] = NoInput
       THEN /\ pc' = [pc EXCEPT ![f] = "done"]
            /\ flow_result' = [flow_result EXCEPT ![f] = ShowForm("user", "none")]
       ELSE /\ pc' = [pc EXCEPT ![f] = "connect"]
            /\ UNCHANGED flow_result
    /\ ready' = Tail(ready)
    /\ UNCHANGED <<wake, result, entries, flow_input, flow_exc, flow_known, nFlows>>

\* The client's connect or close returns, or raises exc.
FlowAwaitReturns(f, exc) ==
    /\ f \in FlowTasks /\ pc[f] \in {"connect", "close"} /\ wake[f] = "none"
    /\ exc \in FlowExceptions \cup {"none"}
    /\ wake' = [wake EXCEPT ![f] = "ok"]
    /\ flow_exc' = [flow_exc EXCEPT ![f] = <<pc[f], exc>>]
    /\ ready' = Append(ready, f)
    /\ UNCHANGED <<pc, result, entries, flow_input, flow_result, flow_known, nFlows>>

\* validate_input after connect returned: `await client.close()`.
validate_input_close(f) ==
    /\ Running(f) /\ pc[f] = "connect" /\ wake[f] = "ok"
    /\ flow_exc[f][2] = "none"
    /\ pc' = [pc EXCEPT ![f] = "close"]
    /\ wake' = [wake EXCEPT ![f] = "none"]
    /\ ready' = Tail(ready)
    /\ UNCHANGED <<result, flowVars>>

\* The rest of the step, once validate_input is left: an error shows the form
\* again; else the unique id is set, the flow aborts when it is configured
\* and creates the entry when it is not.
async_step_user_finish(f) ==
    /\ Running(f) /\ pc[f] \in {"connect", "close"} /\ wake[f] = "ok"
    /\ pc[f] = "connect" => flow_exc[f][2] # "none"
    /\ LET raised == validate_input(flow_exc[f][2])
           input == flow_input[f]
           unique_id == input.wifi_device_id
       IN  IF raised # "none"
           THEN /\ flow_result' = [flow_result EXCEPT ![f] =
                        ShowForm("user", StepErrors(raised))]
                /\ UNCHANGED entries
           ELSE IF Configured(unique_id)
           THEN /\ flow_result' = [flow_result EXCEPT ![f] =
                        Abort("already_configured")]
                /\ UNCHANGED entries
           ELSE /\ flow_result' = [flow_result EXCEPT ![f] =
                        CreateEntry(Title(input.host), input)]
                /\ entries' = Append(entries,
                        [unique_id |-> unique_id, title |-> Title(input.host),
                         data |-> input])
    /\ pc' = [pc EXCEPT ![f] = "done"]
    /\ wake' = [wake EXCEPT ![f] = "none"]
    /\ ready' = Tail(ready)
    /\ UNCHANGED <<result, flow_input, flow_exc, flow_known, nFlows>>

\* Before any flow: no coordinator, no timer, no entity, no entry.
FlowInit ==
    /\ pc = [t \in FlowTasks |-> "none"]
    /\ wake = [t \in FlowTasks |-> "none"]
    /\ ready = <<>>
    /\ result = [t \in FlowTasks |-> "none"]
    /\ connected = FALSE
    /\ receive_task = 0
    /\ callbacks = <<>>
    /\ client_open = FALSE
    /\ client_closing = FALSE
    /\ attempts = [t \in Tasks |-> 0]
    /\ fails = [t \in Tasks |-> 0]
    /\ closes = [t \in Tasks |-> 0]
    /\ inbox = [t \in Loops |-> 0]
    /\ pending_exc = [t \in Loops |-> FALSE]
    /\ awaiting = 0
    /\ nLoops = 0
    /\ nHandlers = 0
    /\ nMsgs = 0
    /\ registered = FALSE
    /\ forwarded = FALSE
    /\ services = FALSE
    /\ log = <<>>
    /\ TimerCreated
    /\ NoCommands
    /\ NoEntities
    /\ NoFlows

flowOtherVars == <<coordVars, clientVars, countVars, inbox, pending_exc, awaiting,
                   nLoops, envVars, setupVars, log, commandVars, delay, entityVars,
                   timerVars>>

FlowNext ==
    \/ \E input \in UserInputs \cup {NoInput} :
          FlowSubmitted(input) /\ UNCHANGED flowOtherVars
    \/ \E f \in FlowTasks : async_step_user_begin(f) /\ UNCHANGED flowOtherVars
    \/ \E f \in FlowTasks, exc \in FlowExceptions \cup {"none"} :
          FlowAwaitReturns(f, exc) /\ UNCHANGED flowOtherVars
    \/ \E f \in FlowTasks : validate_input_close(f) /\ UNCHANGED flowOtherVars
    \/ \E f \in FlowTasks : async_step_user_finish(f) /\ UNCHANGED flowOtherVars

FlowSpec == FlowInit /\ [][FlowNext]_vars

\* ------------------------------------------------ claims, third group
\* C22: `remaining` is a natural number of seconds; while the timer is active
\* and now is before the finish time it is the floor of finish - now in
\* seconds; it is 0 when the timer is idle and when now is at or past the
\* finish time.
C22_RemainingFloor ==
    /\ remaining \in Nat
    /\ (timer_state = "active" /\ timer_finish # 0 /\ now < timer_finish) =>
            /\ remaining * TicksPerSecond <= timer_finish - now
            /\ timer_finish - now < (remaining + 1) * TicksPerSecond
    /\ (timer_state = "idle" \/ (timer_finish # 0 /\ now >= timer_finish)) =>
            remaining = 0
\* The timer is active and the clock is more than a second past the finish time.
C22_Witness ==
    /\ timer_state = "active" /\ timer_finish # 0
    /\ now >= timer_finish + TicksPerSecond

\* C30 (as claimed): in every state in which async_stop has returned, no
\* receive loop is active: none is left, and none was spawned since by a
\* reconnect that was under way when stop was called.
C30_StoppedStaysStopped == pc[StopT] = "done" => ActiveLoops = {}

\* C27: in a handler run, the step that sees connect() fail goes into the sleep
\* of 10 units and nowhere else; the handler leaves the sleep, and starts an
\* attempt after a failed one, only when that delay has elapsed; the step that
\* sees connect() succeed does not sleep.
C27_DelayAfterFailure ==
    [][\A h \in Handlers :
          /\ (Leaves(h, "connecting") /\ wake[h] = "fail") =>
                pc'[h] = "sleeping" /\ delay'[h] = 10
          /\ Leaves(h, "sleeping") => delay[h] = 0 /\ wake[h] = "ok"
          /\ (pc'[h] = "connecting" /\ pc[h] # "connecting" /\ fails[h] > 0) =>
                pc[h] = "sleeping" /\ delay[h] = 0
          /\ (Leaves(h, "connecting") /\ wake[h] = "ok") =>
                pc'[h] = "done" /\ delay'[h] = 0]_vars
\* A handler's second attempt is under way, after one failure and its delay.
C27_Witness ==
    \E h \in Handlers :
        /\ pc[h] = "connecting" /\ attempts[h] = 2 /\ fails[h] = 1
        /\ delay[h] = 0

\* The step of receive loop t that processed a message and notified.
Notified(t) ==
    /\ TakesStep(t) /\ pc[t] = "recv" /\ wake[t] = "msg"
    /\ Len(log') > Len(log) /\ log'[Len(log) + 1][1] = "p"

\* C21 (as claimed): the device model changes only in a step of a receive
\* loop that processes a message.
C21_OnlyProcessorWrites ==
    [][device' # device => \E t \in Loops : Notified(t)]_vars

C29_RemoveAbsentRaises ==
    [][(nRemovals' = nRemovals + 1
            /\ ~ \E i \in DOMAIN callbacks : callbacks[i] = remove_call'[1]) =>
          remove_call'[2] = "ValueError" /\ callbacks' = callbacks]_vars
\* A sensor's callback was removed a second time; the other is still registered.
C29_Witness ==
    /\ remove_call = <<1, "ValueError">>
    /\ callbacks = <<2>>

\* The states the timer wrote in this step, and those of them the loop wrote.
StepWrites ==
    IF timer_written'[1] # timer_written[1] THEN timer_written'[2] ELSE <<>>
TickWrites == SelectSeq(StepWrites, LAMBDA w : w[1] = "tick")
\* The state written last, before this step.
LastWritten == timer_written[2][Len(timer_written[2])]
\* The step of ticking task t that is a turn of its while loop.
LoopTurn(t) ==
    /\ TakesStep(t)
    /\ \/ pc[t] = "created" /\ wake[t] = "none"
       \/ pc[t] = "sleep" /\ wake[t] = "ok"
    /\ timer_state = "active" /\ timer_finish # 0

\* C28: every turn of the ticking task's loop writes the state once, with the
\* remaining seconds of that moment, never more than the state written before
\* it; the turn that sees 0 goes into the finish path; from then on the task
\* takes no turn and the loop writes nothing.
C28_TicksCountDown ==
    [][\A t \in Ticks :
          /\ LoopTurn(t) =>
                /\ TickWrites = <<(<<"tick", Value(remaining)>>)>>
                /\ timer_written[2] # <<>>
                /\ remaining <= LastWritten[2][2]
                /\ remaining = 0 => pc'[t] \in {"join", "done"}
                /\ remaining > 0 => pc'[t] = "sleep"
          /\ (TakesStep(t) /\ ~LoopTurn(t)) => TickWrites = <<>>
          /\ pc[t] \in {"join", "done"} => pc'[t] \in {"join", "done"}]_vars
\* A ticking task saw 0 and finished the run: its last turn wrote 0, the
\* finish path wrote the idle state, and "finished" was fired.
C28_Witness ==
    /\ \E t \in Ticks : pc[t] = "done" /\ result[t] = "ok"
    /\ events # <<>> /\ events[Len(events)] = Finished
    /\ timer_written[2][Len(timer_written[2])] = <<"cancel", Value(0)>>
    /\ timer_state = "idle"

\* The flows whose step was called with user input and has returned.
Answered == {f \in FlowTasks : pc[f] = "done" /\ flow_input[f] # NoInput}
\* The connection check of flow f succeeded: validate_input returned.
CheckSucceeded(f) == validate_input(flow_exc[f][2]) = "none"
\* The entries with unique id d.
EntriesOf(d) == {k \in DOMAIN entries : entries[k].unique_id = d}
\* The flows that ended by creating an entry.
Creators == {f \in FlowTasks : flow_result[f][1] = "create_entry"}

\* C23 (as stated): a flow submitted with a wifi device id that already has a
\* config entry aborts with reason already_configured and creates no entry,
\* so at most one config entry exists per device id.
C23_DuplicateAborts ==
    /\ \A f \in Answered :
          flow_known[f] => flow_result[f] = Abort("already_configured")
    /\ \A d \in DeviceIds : Cardinality(EntriesOf(d)) <= 1

\* C23 (amended): a flow submitted with a wifi device id that already has a
\* config entry creates no entry: it aborts with reason already_configured
\* when its connection check succeeds, and shows the user form again with an
\* error when the check fails; every entry was created by one flow, and at
\* most one config entry exists per device id.
C23_DuplicateCreatesNoEntry ==
    /\ \A f \in Answered :
          flow_known[f] =>
             IF CheckSucceeded(f)
             THEN flow_result[f] = Abort("already_configured")
             ELSE /\ flow_result[f][1] = "form"
                  /\ flow_result[f][2] = "user"
                  /\ flow_result[f][3] # "none"
    /\ Len(entries) = Cardinality(Creators)
    /\ \A d \in DeviceIds : Cardinality(EntriesOf(d)) <= 1

\* A flow for a device id that had an entry when it was submitted has
\* aborted, and the entry is still the only one.
C23_Witness ==
    \E f \in Answered :
        /\ flow_known[f] /\ CheckSucceeded(f)
        /\ flow_result[f] = Abort("already_configured")
        /\ Len(entries) = 1

\* C24: when the connection check of the user step fails because the device
\* cannot be connected to (connect raised), the flow creates no config entry
\* and shows the user form again with errors base=cannot_connect.
C24_CannotConnectShown ==
    \A f \in Answered :
        (flow_exc[f][1] = "connect" /\ flow_exc[f][2] \in {"SSLError", "OSError"})
            => /\ flow_result[f] = ShowForm("user", "cannot_connect")
               /\ f \notin Creators

\* C25: a flow whose connection check succeeds (and whose device id is not
\* configured) ends by creating a config entry whose title equals the
\* configured host and whose data equals the submitted user input.
C25_TitleIsHost ==
    \A f \in Answered :
        (CheckSucceeded(f) /\ flow_result[f] # Abort("already_configured"))
            => flow_result[f] =
                  CreateEntry(Text(flow_input[f].host), flow_input[f])

\* ----------------------------------------------- claims, fourth group
\* The transport is taken down in this step.
GoesDown == client_open /\ ~client_open'
\* The step is the transport's connection-lost signal.
Lost == nHandlers' = nHandlers + 1
\* The receive loops that call close() in this step.
CloserLoops == {t \in Loops : closes'[t] = closes[t] + 1}
\* A connect() has succeeded and its caller has not run since.
SuccessPending == \E u \in Tasks : pc[u] = "connecting" /\ wake[u] = "ok"
\* A reconnect has succeeded and the flag is up.
Reconnected == nLoops >= 2 /\ connected

PendingHandlers == {h \in Handlers : pc[h] \notin {"none", "done"}}

EntriesFor(m) == {k \in DOMAIN log : log[k][3] = m}
\* The callbacks that were called for message m (returning or raising).
CalledFor(m) == {log[k][4] : k \in {j \in EntriesFor(m) : log[j][1] \in {"c", "r"}}}
\* The callbacks registered when message m was notified.
RegisteredAt(k) == log[k][4]

\* C33: a registered callback that raises while being notified does not stop
\* the receive loop (it goes on with the next message) and every callback
\* registered then is called for that message.
C33_RaisingCallbackIsolated ==
    \A k \in DOMAIN log :
        log[k][1] = "r" =>
            /\ pc[LoopT(log[k][2])] = "recv"
            /\ \E j \in EntriesFor(log[k][3]) :
                  /\ log[j][1] = "p"
                  /\ Cardinality(CalledFor(log[k][3])) = RegisteredAt(j)

\* The outside cancel returns in this step.
CancelReturns == pc[CancelT] = "join" /\ pc'[CancelT] = "done"

\* C34: a start(d) that ran while a cancel awaited the teardown of the
\* ticking task is not lost: when the cancel has returned too, the timer is
\* active with duration d and a live ticking task, and the last event is the
\* "started" event of that start.
C34_StartDuringCancelKept ==
    [][(CancelReturns /\ start_overlap # 0) =>
          /\ timer_state' = "active" /\ timer_duration' = start_overlap
          /\ update_task' # 0 /\ pc'[TickT(update_task')] # "done"
          /\ events' # <<>>
          /\ events'[Len(events')] = <<"started", start_overlap>>]_vars

\* The positions of the events of one kind.
EventsOf(kind) == {k \in DOMAIN events : events[k][1] = kind}

\* C35: never more "finished" than "started" events were fired, and no two
\* "finished" events follow each other without a "started" event between.
C35_FinishedPerStarted ==
    /\ Cardinality(EventsOf("finished")) <= Cardinality(EventsOf("started"))
    /\ \A k \in DOMAIN events :
          events[k][1] = "finished" => (k > 1 /\ events[k - 1][1] = "started")

\* async_unload_entry has returned True for the entry.
Unloaded == pc[StopT] = "done" /\ result[StopT] = "unloaded"
\* A service handler calls the coordinator's send in this step.
CallsSend == \E t \in CmdTasks : pc[t] = "created" /\ pc'[t] = "sending"

\* C36: after the config entry has been unloaded, no call of a service sends
\* a command through the entry's coordinator.
C36_NoSendAfterUnload == [][Unloaded => ~CallsSend]_vars

\* The option the select was last set to: the last call with one of its
\* options, "normal" before any.
LastSelected(s) ==
    LET valid == {k \in DOMAIN s : s[k] \in Options}
    IN  IF valid = {} THEN "normal"
        ELSE s[CHOOSE k \in valid : \A j \in valid : j <= k]
\* async_select_option is called with something that is no option.
SelectsOther ==
    /\ Len(selections') = Len(selections) + 1
    /\ selections'[Len(selections')] \notin Options
\* The handler of task t calls the client's command in this step.
Sends(t) == pc[t] = "created" /\ pc'[t] = "sending"

\* C37: the commissioning mode is always normal or boost, normal at first;
\* selecting anything else leaves it as it is; a press of Start Commissioning
\* sends start_commissioning with the mode selected last.
C37_CommissionMode ==
    /\ [](/\ commission_mode \in Options
          /\ selections = <<>> => commission_mode = "normal")
    /\ [][/\ SelectsOther => commission_mode' = commission_mode
          /\ \A t \in CmdTasks : (Sends(t) /\ cmd_kind[t] = "commission_mode") =>
                sent' = Append(sent, <<t, "start_commissioning",
                                       [airflow |-> LastSelected(selections)], "none">>)]_vars
\* Boost was selected, then something that is no option, and a press has sent
\* start_commissioning with boost.
C37_Witness ==
    /\ selections = <<"boost", "purge">>
    /\ commission_mode = "boost"
    /\ \E k \in DOMAIN sent :
          sent[k][2] = "start_commissioning" /\ sent[k][3].airflow = "boost"

\* The calls of the client's commands the handler of task t has made.
SentBy(t) == {k \in DOMAIN sent : sent[k][1] = t}
\* The summer-bypass calls whose handler has run as far as it goes before
\* its first await.
BypassHandled ==
    {t \in CmdTasks : cmd_kind[t] = "set_summer_bypass" /\ pc[t] \in {"sending", "done"}}

\* C38: a summer-bypass call without any field sends nothing; a call with
\* at least one field, whatever its value, sends exactly one update on topic
\* ee whose keys are those of the fields supplied.
C38_BypassSendsSuppliedFields ==
    \A t \in BypassHandled :
        IF DOMAIN cmd_data[t] = {} THEN SentBy(t) = {}
        ELSE /\ Cardinality(SentBy(t)) = 1
             /\ \A k \in SentBy(t) :
                   /\ sent[k][2] = "send_update_request"
                   /\ sent[k][4] = "ee"
                   /\ DOMAIN sent[k][3] = {Key(f) : f \in DOMAIN cmd_data[t]}

====
